---- MODULE Spec2Model ----
(***************************************************************************)
(* A model of the Sectionist analysis backend (src/backend).               *)
(*                                                                         *)
(* The backend is a set of pure functions over numeric arrays; each is an  *)
(* operator here, computed as the Python computes it, in fixed point:      *)
(*   - a time is an integer number of ticks, TicksPerSec ticks a second    *)
(*     (TicksPerSec = 12 * 22050, so every frame time k*hop/sr and every   *)
(*     third and quarter of a whole number of samples is exact);           *)
(*   - round(x, 2) of a time gives centiseconds (Round2), of a score gives *)
(*     hundredths;                                                         *)
(*   - a novelty value, a chroma value and a score are hundredths.         *)
(* Python indices are kept 0-based: At(s, i) is s[i].                      *)
(*                                                                         *)
(* The state is one call of an entry point: fn names it, args holds its    *)
(* arguments, pc the step it is at.  The structural analyses run in steps  *)
(* (detect the boundaries, label the sections, post-process them) that     *)
(* leave their results in boundary_times, sections and processed; the      *)
(* other entry points run in one step and leave theirs in ret, and the     *)
(* calls analyze_audio_file made, in order, in calls.  Init draws the      *)
(* arguments.                                                              *)
(***************************************************************************)
EXTENDS Integers, Sequences, FiniteSets, TLC

VARIABLES fn, args, pc, boundary_times, sections, processed, ret, calls,
          disk, requests, window, workers, player, timeline

\* The call of a backend function: its name, arguments, position, the lists
\* it builds and what it returns.
backendVars == <<fn, args, pc, boundary_times, sections, processed, ret, calls>>

\* The Flask server: the files of the upload folder and the requests in
\* flight.
serverVars == <<disk, requests>>

\* The PyQt front end: the main window, its analysis workers, the audio
\* player and the timeline widget.
frontendVars == <<window, workers, player, timeline>>

vars == <<backendVars, serverVars, frontendVars>>

\* The value of an object's variable in a program that never builds it.
Absent == <<>>

\* A backend function is called directly: no server and no front end.
NoServer == disk = Absent /\ requests = Absent

NoFrontend == window = Absent /\ workers = Absent /\ player = Absent /\ timeline = Absent

\* ret before the call returns.
NoRet == [kind |-> "none"]

(***************************************************************************)
(* Units and helpers                                                       *)
(***************************************************************************)
SR == 22050

TicksPerSec == 12 * SR

Sec(n) == n * TicksPerSec

At(s, i) == s[i + 1]

Abs(x) == IF x < 0 THEN 0 - x ELSE x

Min2(a, b) == IF a <= b THEN a ELSE b

Max2(a, b) == IF a >= b THEN a ELSE b

RECURSIVE SeqSum(_)
SeqSum(s) == IF s = <<>> THEN 0 ELSE Head(s) + SeqSum(Tail(s))

SeqSumSq(s) == SeqSum([i \in 1..Len(s) |-> s[i] * s[i]])

SetMax(S) == CHOOSE x \in S : \A y \in S : y <= x

SetMin(S) == CHOOSE x \in S : \A y \in S : x <= y

\* The elements of a set of integers, in increasing order.
RECURSIVE SortedSeq(_)
SortedSeq(S) == IF S = {} THEN <<>> ELSE <<SetMin(S)>> \o SortedSeq(S \ {SetMin(S)})

\* Python's round(): the integer nearest to num/den, a half to the even
\* neighbour (num >= 0, den > 0).
RoundHalfEven(num, den) ==
    LET q == num \div den
        r == num % den
    IN  IF 2 * r < den THEN q
        ELSE IF 2 * r > den THEN q + 1
        ELSE IF q % 2 = 0 THEN q ELSE q + 1

\* round(float(t), 2) of a time t in ticks: centiseconds.
Round2(t) ==
    LET s == t \div TicksPerSec
        f == t % TicksPerSec
    IN  s * 100 + RoundHalfEven(f * 100, TicksPerSec)

(***************************************************************************)
(* detect_boundaries_novelty (improved_segmentation.py)                    *)
(*                                                                         *)
(* A novelty curve is a sequence of hundredths; novelty_functions is a     *)
(* function from a subset of {"combined", "harmonic"} to curves;           *)
(* frame_times is a sequence of ticks.                                     *)
(***************************************************************************)

\* height=threshold with threshold = mean + 0.5 * std of the curve x:
\* v >= S/n + 0.5 * sqrt(n*Q - S^2)/n, with S the sum and Q the sum of squares.
HeightOK(x, v) ==
    LET n == Len(x)
        S == SeqSum(x)
        Q == SeqSumSq(x)
        d == n * v - S
    IN  d >= 0 /\ 4 * d * d >= n * Q - S * S

\* scipy's _local_maxima_1d: the midpoints of the plateaus that are strictly
\* higher than both neighbours; the first and the last sample are never peaks.
LocalMaxima(x) ==
    LET n == Len(x)
    IN  { (l + r) \div 2 : <<l, r>> \in
            { p \in (1..(n - 2)) \X (1..(n - 2)) :
                /\ p[1] <= p[2]
                /\ \A i \in p[1]..p[2] : At(x, i) = At(x, p[1])
                /\ At(x, p[1] - 1) < At(x, p[1])
                /\ At(x, p[2] + 1) < At(x, p[2]) } }

\* scipy's _select_by_peak_distance: from the highest peak down (of equal peaks
\* the later one first), keep a peak and drop the undecided ones closer than
\* distance to it.
RECURSIVE SelectByDistance(_, _, _)
SelectByDistance(x, cands, distance) ==
    IF cands = {} THEN {}
    ELSE LET j == CHOOSE p \in cands :
                    \A q \in cands :
                        \/ At(x, q) < At(x, p)
                        \/ (At(x, q) = At(x, p) /\ q <= p)
         IN  {j} \cup SelectByDistance(x,
                        { k \in cands : Abs(k - j) >= distance }, distance)

\* scipy's peak_prominences for peak p: its height above the higher of the two
\* lowest points between it and the nearest higher sample on each side.
Prominence(x, p) ==
    LET n == Len(x)
        lstop == IF \E i \in 0..p : At(x, i) > At(x, p)
                 THEN SetMax({ i \in 0..p : At(x, i) > At(x, p) }) + 1 ELSE 0
        rstop == IF \E i \in p..(n - 1) : At(x, i) > At(x, p)
                 THEN SetMin({ i \in p..(n - 1) : At(x, i) > At(x, p) }) - 1 ELSE n - 1
        left_min == SetMin({ At(x, i) : i \in lstop..p })
        right_min == SetMin({ At(x, i) : i \in p..rstop })
    IN  At(x, p) - Max2(left_min, right_min)

\* prominence=0.1, in hundredths.
MinProminence == 10

\* find_peaks(novelty, height=threshold, distance=min_distance_frames,
\* prominence=0.1): the conditions are applied in scipy's order.
find_peaks(x, distance) ==
    LET byHeight == { p \in LocalMaxima(x) : HeightOK(x, At(x, p)) }
        byDistance == SelectByDistance(x, byHeight, distance)
    IN  { p \in byDistance : Prominence(x, p) >= MinProminence }

\* [0, duration/3, 2*duration/3, duration]
EqualThirds(duration) == <<0, duration \div 3, (2 * duration) \div 3, duration>>

\* total_duration if frame_times is empty: 60.0 seconds.
DefaultDuration == Sec(60)

\* The loop over the peaks (lines 249-254): a peak inside frame_times becomes a
\* boundary unless it is closer than min_segment_length to the last one kept.
RECURSIVE AppendPeaks(_, _, _, _)
AppendPeaks(bts, peaks, frame_times, min_segment_length) ==
    IF peaks = <<>> THEN bts
    ELSE LET peak == Head(peaks)
             keep == /\ peak < Len(frame_times)
                     /\ At(frame_times, peak) - bts[Len(bts)]
                            >= min_segment_length
         IN  AppendPeaks(IF keep THEN Append(bts, At(frame_times, peak))
                                 ELSE bts,
                         Tail(peaks), frame_times, min_segment_length)

\* A detector content with the two ends of the track.
TooFewBoundaries_TwoSuffice(bts) == Len(bts) < 2

\* Ensure we have at least 3 boundaries (line 262).
TooFewBoundaries(bts) == Len(bts) < 3

\* The boundaries picked from the preferred curve: 0.0, the peaks that are far
\* enough from the boundary before them, and the total duration.
FilteredPeaks(novelty_functions, frame_times, min_segment_length) ==
    LET keys == DOMAIN novelty_functions
        total_duration == IF Len(frame_times) > 0
                          THEN frame_times[Len(frame_times)] ELSE DefaultDuration
        novelty == IF "combined" \in keys THEN novelty_functions["combined"]
                   ELSE novelty_functions["harmonic"]
        min_distance_frames ==
            Max2(1, IF Len(frame_times) > 1
                    THEN min_segment_length
                           \div (At(frame_times, 1) - At(frame_times, 0))
                    ELSE 1)
        peaks == SortedSeq(find_peaks(novelty, min_distance_frames))
        picked == AppendPeaks(<<0>>, peaks, frame_times, min_segment_length)
    IN  IF picked[Len(picked)] # total_duration
        THEN Append(picked, total_duration) ELSE picked

detect_boundaries_novelty(novelty_functions, frame_times, min_segment_length) ==
    LET keys == DOMAIN novelty_functions
        total_duration == IF Len(frame_times) > 0
                          THEN frame_times[Len(frame_times)] ELSE DefaultDuration
    IN  IF "combined" \notin keys /\ "harmonic" \notin keys
        THEN EqualThirds(total_duration)
        ELSE
          LET closed == FilteredPeaks(novelty_functions, frame_times, min_segment_length)
          IN  IF TooFewBoundaries(closed) THEN EqualThirds(total_duration) ELSE closed

(***************************************************************************)
(* Feature matrices                                                        *)
(*                                                                         *)
(* A feature set is run-length encoded: runs is a sequence of              *)
(* [len |-> frames, mat |-> material], and every frame of a run has the    *)
(* chroma column, the RMS energy (hundredths) and the spectral centroid    *)
(* (Hz) of its material.                                                   *)
(***************************************************************************)
Bins == 0..11

Materials ==
    <<  \* digital silence: librosa leaves an all-zero chroma column
        [chroma |-> <<0, 0, 0, 0, 0, 0, 0, 0, 0, 0, 0, 0>>, rms |-> 0, centroid |-> 0],
        \* a quiet C major chord
        [chroma |-> <<100, 5, 5, 5, 80, 5, 5, 90, 5, 5, 5, 5>>, rms |-> 20, centroid |-> 900],
        \* a loud G major chord
        [chroma |-> <<5, 5, 90, 5, 5, 5, 5, 100, 5, 5, 5, 80>>, rms |-> 50, centroid |-> 1500],
        \* loud noise: every pitch class equally strong
        [chroma |-> <<100, 100, 100, 100, 100, 100, 100, 100, 100, 100, 100, 100>>,
         rms |-> 45, centroid |-> 3000],
        \* a loud whole-tone cluster
        [chroma |-> <<100, 0, 100, 0, 100, 0, 100, 0, 100, 0, 100, 0>>,
         rms |-> 60, centroid |-> 2000] >>

RECURSIVE NumFrames(_)
NumFrames(runs) == IF runs = <<>> THEN 0 ELSE Head(runs).len + NumFrames(Tail(runs))

\* The first frame of run j (1-based), 0-based.
RunStart(runs, j) == NumFrames(SubSeq(runs, 1, j - 1))

\* How many frames of run j lie in the slice [a, b).
Overlap(runs, j, a, b) ==
    Max2(0, Min2(b, RunStart(runs, j) + runs[j].len) - Max2(a, RunStart(runs, j)))

\* The material of frame i.
MatAt(runs, i) ==
    runs[CHOOSE j \in 1..Len(runs) : Overlap(runs, j, i, i + 1) = 1].mat

\* Sums over the frames of the slice [a, b) of one chroma bin, of the energy,
\* of the centroid.
ChromaSum(runs, bin, a, b) ==
    SeqSum([j \in 1..Len(runs) |->
              Overlap(runs, j, a, b) * At(Materials[runs[j].mat].chroma, bin)])

RmsSum(runs, a, b) ==
    SeqSum([j \in 1..Len(runs) |-> Overlap(runs, j, a, b) * Materials[runs[j].mat].rms])

CentroidSum(runs, a, b) ==
    SeqSum([j \in 1..Len(runs) |->
              Overlap(runs, j, a, b) * Materials[runs[j].mat].centroid])

(***************************************************************************)
(* detect_boundaries_frame_based (example.py)                              *)
(***************************************************************************)
\* hop_length = 2048 of analyze_song_structure, in samples.
HopLength == 2048

\* frame_times[i] of analyze_song_structure: i * hop_length / sr, in ticks.
FrameTime(i) == i * HopLength * 12

\* chroma.shape[1] < 32: too few frames for analysis.
MinFrames == 32

\* [0, duration/4, duration/2, 3*duration/4, duration]
EqualQuarters(duration) ==
    <<0, duration \div 4, duration \div 2, (3 * duration) \div 4, duration>>

\* boundary_score > 0.3 at frame i, comparing the fpw frames before with the fpw
\* after.  Means are kept to four decimals; the score is
\* norm(chroma difference) + 5 * energy difference + centroid difference / 1000.
BoundaryScoreHigh(runs, n, i, fpw) ==
    LET b0 == Max2(0, i - fpw)
        a1 == Min2(n, i + fpw)
        wb == i - b0
        wa == a1 - i
        cd(bin) == (ChromaSum(runs, bin, b0, i) * 100) \div wb
                     - (ChromaSum(runs, bin, i, a1) * 100) \div wa
        X == SeqSum([k \in 1..12 |-> cd(k - 1) * cd(k - 1)])
        energy_diff == Abs((RmsSum(runs, b0, i) * 100) \div wb
                             - (RmsSum(runs, i, a1) * 100) \div wa)
        brightness_diff == Abs(CentroidSum(runs, b0, i) \div wb
                                 - CentroidSum(runs, i, a1) \div wa)
        R == 3000 - 5 * energy_diff - 10 * brightness_diff
    IN  wb > 0 /\ wa > 0 /\ (R < 0 \/ X > R * R)

\* range(frames_per_window, n - frames_per_window, frames_per_step)
RECURSIVE Candidates(_, _, _)
Candidates(i, stop, step) ==
    IF i >= stop THEN <<>> ELSE <<i>> \o Candidates(i + step, stop, step)

\* Remove boundaries that are too close together (lines 151-154).
RECURSIVE FilterClose(_, _, _)
FilterClose(filtered, rest, min_section_length) ==
    IF rest = <<>> THEN filtered
    ELSE FilterClose(IF Head(rest) - filtered[Len(filtered)] >= min_section_length
                     THEN Append(filtered, Head(rest)) ELSE filtered,
                     Tail(rest), min_section_length)

\* If we have too few sections, add some basic ones (line 161).
TooFewSections(filtered_boundaries) == Len(filtered_boundaries) < 3

\* min_section_length = 12.0 seconds.
FrameMinSectionLength == Sec(12)

\* The boundaries kept of the frames that score high: 0.0, those at least
\* 12 seconds after the boundary before them, and the duration.
FilteredBoundaries(runs, duration) ==
    LET n == NumFrames(runs)
        dt == FrameTime(1) - FrameTime(0)
        frames_per_window == Sec(5) \div dt
        frames_per_step == Sec(2) \div dt
        cands == Candidates(frames_per_window, n - frames_per_window,
                            frames_per_step)
        hits == SelectSeq(cands,
                   LAMBDA i : BoundaryScoreHigh(runs, n, i, frames_per_window))
        boundaries == <<0>>
            \o [k \in 1..Len(hits) |->
                  IF hits[k] < n THEN FrameTime(hits[k]) ELSE FrameTime(n - 1)]
            \o <<duration>>
        filtered == FilterClose(<<boundaries[1]>>, Tail(boundaries),
                                FrameMinSectionLength)
    IN  IF filtered[Len(filtered)] # duration
        THEN Append(filtered, duration) ELSE filtered

detect_boundaries_frame_based(runs, duration) ==
    IF NumFrames(runs) < MinFrames THEN EqualQuarters(duration)
    ELSE LET closed == FilteredBoundaries(runs, duration)
         IN  IF TooFewSections(closed) THEN EqualThirds(duration) ELSE closed

(***************************************************************************)
(* label_sections_frame_based (example.py)                                 *)
(*                                                                         *)
(* A section is [name, start, end, confidence]: start and end in           *)
(* centiseconds, confidence in hundredths, as round(.., 2) leaves them.    *)
(***************************************************************************)
VerseNames == <<"Verse 1", "Verse 2", "Verse 3", "Verse 4", "Verse 5", "Verse 6",
                "Verse 7", "Verse 8", "Verse 9">>

\* f"Verse {k}"
VerseName(k) == VerseNames[k]

\* np.argmin(np.abs(frame_times - t)) for frame_times[i] = FrameTime(i), i < n:
\* the nearest frame, the earlier of two equally near.  The distance falls and
\* then rises along the frames, so only the two frames around t can be nearest.
NearestFrame(t, n) ==
    LET lo == Min2(n - 1, t \div FrameTime(1))
        hi == Min2(n - 1, lo + 1)
    IN  IF Abs(FrameTime(hi) - t) < Abs(FrameTime(lo) - t) THEN hi ELSE lo

\* np.var(segment_chroma) over the frames [a, b), in millionths: the mean of
\* the squared deviations from the mean (kept to three decimals).
ChromaVar(runs, a, b) ==
    LET w == b - a
        total == SeqSum([k \in 1..12 |-> ChromaSum(runs, k - 1, a, b)])
        mean3 == (total * 10) \div (12 * w)
        dev2(j) == SeqSum([k \in 1..12 |->
                     (At(Materials[runs[j].mat].chroma, k - 1) * 10 - mean3)
                       * (At(Materials[runs[j].mat].chroma, k - 1) * 10 - mean3)])
                   \div 12
    IN  SeqSum([j \in 1..Len(runs) |-> (Overlap(runs, j, a, b) * dev2(j)) \div w])

\* The characteristics of the segment [start_time, end_time) (lines 183-205):
\* energy_level in 1/10000, brightness in Hz, and chroma_stability =
\* 1 / (1 + var) as the denominator 1 + var in millionths.
FrameSegmentFeatures(runs, start_time, end_time) ==
    LET n == NumFrames(runs)
        start_frame == NearestFrame(start_time, n)
        end_frame == NearestFrame(end_time, n)
        b == Min2(end_frame, n)
        w == b - start_frame
    IN  IF end_frame > start_frame /\ start_frame < n
        THEN [energy_level |-> (RmsSum(runs, start_frame, b) * 100) \div w,
              stability_den |-> 1000000 + ChromaVar(runs, start_frame, b),
              brightness |-> CentroidSum(runs, start_frame, b) \div w]
        ELSE [energy_level |-> 3000, stability_den |-> 2000000, brightness |-> 1000]

\* The label of segment i (0-based) (lines 208-220).
FrameLabel(i, start_time, end_time, total_duration, f) ==
    LET ratio_lt(pct) == IF total_duration > 0
                         THEN 100 * start_time < pct * total_duration ELSE 0 < pct
        ratio_gt(pct) == IF total_duration > 0
                         THEN 100 * start_time > pct * total_duration ELSE 0 > pct
    IN  IF ratio_lt(15) THEN "Intro"
        ELSE IF ratio_gt(85) THEN "Outro"
        ELSE IF f.energy_level > 4000 /\ f.brightness > 1200 THEN "Chorus"
        ELSE IF ratio_lt(50) THEN VerseName(Min2(i + 1, 3))
        ELSE IF end_time - start_time < Sec(20) /\ 10000000 < 3 * f.stability_den
             THEN "Bridge"
        ELSE IF f.energy_level > 3500 THEN "Chorus" ELSE "Verse"

label_sections_frame_based(boundaries, runs) ==
    LET total_duration == boundaries[Len(boundaries)]
    IN  [k \in 1..(Len(boundaries) - 1) |->
           LET start_time == boundaries[k]
               end_time == boundaries[k + 1]
               f == FrameSegmentFeatures(runs, start_time, end_time)
           IN  [name |-> FrameLabel(k - 1, start_time, end_time, total_duration, f),
                start |-> Round2(start_time),
                end |-> Round2(end_time),
                confidence |-> RoundHalfEven(100000000, f.stability_den)]]

(***************************************************************************)
(* label_sections_advanced (improved_segmentation.py)                      *)
(*                                                                         *)
(* The features are the run-length encoded columns of features['chroma']   *)
(* and features['rms'] (the MFCC and spectral rows are read by             *)
(* analyze_section_content but by no labelling rule); frame_times is an    *)
(* explicit sequence of ticks.                                             *)
(***************************************************************************)
\* Floor of the square root.
RECURSIVE IsqrtFrom(_, _, _)
IsqrtFrom(x, lo, hi) ==
    IF lo >= hi THEN lo
    ELSE LET mid == (lo + hi + 1) \div 2
         IN  IF mid * mid <= x THEN IsqrtFrom(x, mid, hi) ELSE IsqrtFrom(x, lo, mid - 1)

Isqrt(x) == IsqrtFrom(x, 0, 46340)

RmsSqSum(runs, a, b) ==
    SeqSum([j \in 1..Len(runs) |->
              Overlap(runs, j, a, b) * Materials[runs[j].mat].rms * Materials[runs[j].mat].rms])

\* np.argmin(np.abs(frame_times - t)): the first of the nearest frames.
ArgminAbs(frame_times, t) ==
    CHOOSE i \in 0..(Len(frame_times) - 1) :
        \A k \in 0..(Len(frame_times) - 1) :
            \/ Abs(At(frame_times, i) - t) < Abs(At(frame_times, k) - t)
            \/ (Abs(At(frame_times, i) - t) = Abs(At(frame_times, k) - t) /\ i <= k)

\* analyze_section_content: energy_level and energy_variation (mean and
\* standard deviation of the RMS) in thousandths, harmonic_complexity the
\* number of pitch classes above 0.1 in more than a tenth of the frames,
\* chroma_var the variance behind harmonic_stability = 1 / (1 + std), in
\* millionths.
analyze_section_content(runs, start_frame0, end_frame0) ==
    LET max_frames == NumFrames(runs)
        start_frame == Max2(0, Min2(start_frame0, max_frames - 1))
        end_frame == Max2(start_frame + 1, Min2(end_frame0, max_frames))
        w == end_frame - start_frame
        S == RmsSum(runs, start_frame, end_frame)
        Q == RmsSqSum(runs, start_frame, end_frame)
        active(bin) ==
            SeqSum([j \in 1..Len(runs) |->
                      IF At(Materials[runs[j].mat].chroma, bin) > 10
                      THEN Overlap(runs, j, start_frame, end_frame) ELSE 0])
    IN  [energy_level |-> (S * 10) \div w,
         energy_variation |-> Isqrt((w * Q - S * S) * 100) \div w,
         harmonic_complexity |-> Cardinality({ bin \in Bins : 10 * active(bin) > w }),
         chroma_var |-> ChromaVar(runs, start_frame, end_frame)]

\* "Verse" in name
IsVerse(name) == name = "Verse" \/ \E k \in 1..Len(VerseNames) : name = VerseNames[k]

\* The statistics every label reads (lines 351-356, 420).
SectionStats(chars) ==
    [k |-> Len(chars),
     energy_sum |-> SeqSum([i \in 1..Len(chars) |-> chars[i].energy_level]),
     energy_sq |-> SeqSum([i \in 1..Len(chars) |->
                             chars[i].energy_level * chars[i].energy_level]),
     complexity_sum |-> SeqSum([i \in 1..Len(chars) |-> chars[i].harmonic_complexity]),
     variation_sum |-> SeqSum([i \in 1..Len(chars) |-> chars[i].energy_variation])]

\* energy_level > energy_mean + 0.5 * energy_std
IsHighEnergy(c, st) ==
    LET d == st.k * c.energy_level - st.energy_sum
    IN  d > 0 /\ 4 * d * d > st.k * st.energy_sq - st.energy_sum * st.energy_sum

IsComplex(c, st) == st.k * c.harmonic_complexity > st.complexity_sum

\* harmonic_stability > 0.7, that is std < 3/7
IsStable(c) == 49 * c.chroma_var < 9000000

\* duration < 12.0
IsShort(c) == c.end_time - c.start_time < Sec(12)

\* position_ratio < pct/100 and > pct/100, position_ratio being
\* start_time / total_duration, or 0 when total_duration is not positive.
RatioLt(c, pct) ==
    IF c.total_duration > 0 THEN 100 * c.start_time < pct * c.total_duration ELSE 0 < pct

RatioGt(c, pct) ==
    IF c.total_duration > 0 THEN 100 * c.start_time > pct * c.total_duration ELSE 0 > pct

\* The label of section i of k, given the names of the sections before it
\* (lines 373-401).
AdvancedLabel(c, st, is_last, names) ==
    LET verse_count == Cardinality({ j \in 1..Len(names) : IsVerse(names[j]) })
    IN  IF RatioLt(c, 10) \/ (RatioLt(c, 20) /\ c.end_time - c.start_time < Sec(15))
        THEN "Intro"
        ELSE IF RatioGt(c, 90) \/ (RatioGt(c, 85) /\ is_last) THEN "Outro"
        ELSE IF IsHighEnergy(c, st) /\ IsComplex(c, st) /\ ~IsShort(c) THEN "Chorus"
        ELSE IF IsShort(c) /\ ~IsStable(c) /\ RatioGt(c, 30) /\ RatioLt(c, 80)
             THEN "Bridge"
        ELSE IF RatioLt(c, 60) /\ ~IsHighEnergy(c, st) THEN VerseName(verse_count + 1)
        ELSE IF ~IsHighEnergy(c, st)
             THEN IF verse_count > 2 THEN "Verse" ELSE VerseName(verse_count + 1)
        ELSE "Chorus"

\* A confidence that is not capped at 0.99.
AdvancedConfidence_Uncapped(label, c, st) ==
    50 + (IF label = "Intro" /\ RatioLt(c, 15) THEN 30
          ELSE IF label = "Outro" /\ RatioGt(c, 85) THEN 30
          ELSE IF label = "Chorus" /\ IsHighEnergy(c, st) THEN 20
          ELSE IF IsVerse(label) /\ ~IsHighEnergy(c, st) THEN 20
          ELSE IF label = "Bridge" /\ IsShort(c) THEN 20
          ELSE 0)
       + (IF IsStable(c) THEN 10 ELSE 0)
       + (IF st.k * c.energy_variation < st.variation_sum THEN 10 ELSE 0)

\* The confidence of a label, in hundredths (lines 404-423).
AdvancedConfidence(label, c, st) ==
    LET bonus == IF label = "Intro" /\ RatioLt(c, 15) THEN 30
                 ELSE IF label = "Outro" /\ RatioGt(c, 85) THEN 30
                 ELSE IF label = "Chorus" /\ IsHighEnergy(c, st) THEN 20
                 ELSE IF IsVerse(label) /\ ~IsHighEnergy(c, st) THEN 20
                 ELSE IF label = "Bridge" /\ IsShort(c) THEN 20
                 ELSE 0
        stable == IF IsStable(c) THEN 10 ELSE 0
        steady == IF st.k * c.energy_variation < st.variation_sum THEN 10 ELSE 0
    IN  Min2(99, 50 + bonus + stable + steady)

RECURSIVE LabelFrom(_, _, _, _)
LabelFrom(chars, st, i, acc) ==
    IF i > Len(chars) THEN acc
    ELSE LET c == chars[i]
             label == AdvancedLabel(c, st, i = Len(chars),
                                    [j \in 1..Len(acc) |-> acc[j].name])
         IN  LabelFrom(chars, st, i + 1,
                 Append(acc, [name |-> label,
                              start |-> Round2(c.start_time),
                              end |-> Round2(c.end_time),
                              confidence |-> AdvancedConfidence(label, c, st)]))

\* What is known of every segment before it is labelled (lines 331-348).
section_characteristics(bts, runs, frame_times) ==
    [i \in 1..(Len(bts) - 1) |->
        analyze_section_content(runs, ArgminAbs(frame_times, bts[i]),
                                ArgminAbs(frame_times, bts[i + 1]))
          @@ [start_time |-> bts[i], end_time |-> bts[i + 1],
              total_duration |-> bts[Len(bts)]]]

\* np.argmin raises ValueError on an empty frame_times.
label_sections_advanced(bts, runs, frame_times) ==
    IF Len(bts) > 1 /\ frame_times = <<>> THEN [raised |-> "ValueError", value |-> <<>>]
    ELSE
      LET chars == section_characteristics(bts, runs, frame_times)
      IN  [raised |-> "", value |-> LabelFrom(chars, SectionStats(chars), 1, <<>>)]

(***************************************************************************)
(* post_process_sections (improved_segmentation.py)                        *)
(*                                                                         *)
(* The confidence of a section it returns is in thousandths: the mean of   *)
(* two confidences in hundredths is not rounded.                           *)
(***************************************************************************)
\* name.lower().split()[0]
LabelType(name) ==
    IF IsVerse(name) THEN "verse"
    ELSE IF name = "Intro" THEN "intro"
    ELSE IF name = "Outro" THEN "outro"
    ELSE IF name = "Chorus" THEN "chorus"
    ELSE IF name = "Bridge" THEN "bridge"
    ELSE name

ShouldMerge(current, next_section, min_section_length) ==
    \/ LabelType(current.name) = LabelType(next_section.name)
    \/ current.end - current.start < min_section_length
    \/ next_section.end - next_section.start < min_section_length

\* A merge that keeps the end of the first section.
Merged_KeepsEnd(current, next_section) ==
    [current EXCEPT !.confidence = 5 * (current.confidence + next_section.confidence)]

\* current after the merge with next_section (lines 519-521).
Merged(current, next_section) ==
    [name |-> current.name, start |-> current.start, end |-> next_section.end,
     confidence |-> 5 * (current.confidence + next_section.confidence)]

\* sections[i].copy()
Copied(current) == [current EXCEPT !.confidence = 10 * @]

\* A pass that goes on with the section it has just merged away.
RECURSIVE PostProcessFrom_NoSkip(_, _, _, _)
PostProcessFrom_NoSkip(secs, i, min_section_length, merge_similar) ==
    IF i > Len(secs) THEN <<>>
    ELSE IF /\ merge_similar
            /\ i < Len(secs)
            /\ ShouldMerge(secs[i], secs[i + 1], min_section_length)
         THEN <<Merged(secs[i], secs[i + 1])>>
                \o PostProcessFrom_NoSkip(secs, i + 1, min_section_length, merge_similar)
         ELSE <<Copied(secs[i])>>
                \o PostProcessFrom_NoSkip(secs, i + 1, min_section_length, merge_similar)

RECURSIVE PostProcessFrom(_, _, _, _)
PostProcessFrom(secs, i, min_section_length, merge_similar) ==
    IF i > Len(secs) THEN <<>>
    ELSE IF /\ merge_similar
            /\ i < Len(secs)
            /\ ShouldMerge(secs[i], secs[i + 1], min_section_length)
         THEN <<Merged(secs[i], secs[i + 1])>>
                \o PostProcessFrom(secs, i + 2, min_section_length, merge_similar)
         ELSE <<Copied(secs[i])>>
                \o PostProcessFrom(secs, i + 1, min_section_length, merge_similar)

post_process_sections(secs, min_section_length, merge_similar) ==
    IF Len(secs) <= 1 THEN [i \in 1..Len(secs) |-> Copied(secs[i])]
    ELSE PostProcessFrom(secs, 1, min_section_length, merge_similar)

\* The indices at which the pass, from section i on, merges a section with
\* its successor.
RECURSIVE MergedAt(_, _, _, _)
MergedAt(secs, i, min_section_length, merge_similar) ==
    IF i > Len(secs) THEN {}
    ELSE IF /\ merge_similar
            /\ i < Len(secs)
            /\ ShouldMerge(secs[i], secs[i + 1], min_section_length)
         THEN {i} \cup MergedAt(secs, i + 2, min_section_length, merge_similar)
         ELSE MergedAt(secs, i + 1, min_section_length, merge_similar)

\* A pass that works on the input records themselves: a merge is written
\* into the record of the input list.
InputRecord_Aliased(current, next_section) ==
    [current EXCEPT !.end = next_section.end,
                    !.confidence = (current.confidence + next_section.confidence) \div 2]

\* current = sections[i].copy(): the merge is written into the copy, and the
\* record of the input list stays as it was.
InputRecord(current, next_section) == current

\* The caller's list after the call.
InputAfter(secs, min_section_length, merge_similar) ==
    IF Len(secs) <= 1 THEN secs
    ELSE [i \in 1..Len(secs) |->
            IF i \in MergedAt(secs, 1, min_section_length, merge_similar)
            THEN InputRecord(secs[i], secs[i + 1]) ELSE secs[i]]

(***************************************************************************)
(* improved_analyze_song_structure (improved_segmentation.py), from the    *)
(* novelty functions on: args holds novelty_functions, frame_times,        *)
(* min_segment_length and the features (args.runs).                        *)
(***************************************************************************)
DetectBoundariesNovelty ==
    /\ fn = "improved_analyze_song_structure" /\ pc = "detect"
    /\ boundary_times' = detect_boundaries_novelty(args.novelty_functions,
                             args.frame_times, args.min_segment_length)
    /\ pc' = "label"
    /\ UNCHANGED <<fn, args, sections, processed, ret, calls>>
    /\ UNCHANGED <<serverVars, frontendVars>>

LabelSectionsAdvanced ==
    /\ fn = "improved_analyze_song_structure" /\ pc = "label"
    /\ LET r == label_sections_advanced(boundary_times, args.runs, args.frame_times)
       IN  /\ sections' = r.value
           /\ pc' = IF r.raised = "" THEN "labelled" ELSE "raised"
           /\ ret' = IF r.raised = "" THEN ret ELSE [kind |-> "raised", error |-> r.raised]
    /\ UNCHANGED <<fn, args, boundary_times, processed, calls>>
    /\ UNCHANGED <<serverVars, frontendVars>>

(***************************************************************************)
(* analyze_song_structure (example.py): the frame-based analysis           *)
(*                                                                         *)
(* args.runs is the audio as its features, args.len_y its length in        *)
(* samples; there are len_y // hop_length + 1 frames.                      *)
(***************************************************************************)
\* librosa.get_duration(y=y, sr=sr), in ticks.
Duration(len_y) == 12 * len_y

DetectBoundariesFrameBased ==
    /\ fn = "analyze_song_structure" /\ pc = "detect"
    /\ boundary_times' = detect_boundaries_frame_based(args.runs, Duration(args.len_y))
    /\ pc' = "label"
    /\ UNCHANGED <<fn, args, sections, processed, ret, calls>>
    /\ UNCHANGED <<serverVars, frontendVars>>

LabelSectionsFrameBased ==
    /\ fn = "analyze_song_structure" /\ pc = "label"
    /\ sections' = label_sections_frame_based(boundary_times, args.runs)
    /\ pc' = "labelled"
    /\ UNCHANGED <<fn, args, boundary_times, processed, ret, calls>>
    /\ UNCHANGED <<serverVars, frontendVars>>

\* min_section_length=5.0, in centiseconds.
DefaultMinSectionLength == 500

\* post_process_sections on the list a labeller returned.
\* post_process_sections(sections, merge_similar=...) on what a labeller
\* returned; ret keeps the arguments of the call and the list passed in.
PostProcessSections ==
    /\ pc = "labelled"
    /\ \E merge_similar \in BOOLEAN :
         /\ processed' = post_process_sections(sections, DefaultMinSectionLength,
                                               merge_similar)
         /\ sections' = InputAfter(sections, DefaultMinSectionLength, merge_similar)
         /\ ret' = [kind |-> "returned", merge_similar |-> merge_similar,
                    min_section_length |-> DefaultMinSectionLength, input |-> sections]
    /\ pc' = "done"
    /\ UNCHANGED <<fn, args, boundary_times, calls>>
    /\ UNCHANGED <<serverVars, frontendVars>>

(***************************************************************************)
(* Inputs                                                                  *)
(***************************************************************************)
\* The longest run-length encoding of a track.
MaxRuns == 2

\* Run lengths in frames of 2048 samples: 20 (1.9 s), 60 (5.6 s), 140 (13 s),
\* 260 (24 s).
FrameRunLens == {20, 60, 140, 260}

FrameMaterials == {2, 3}

\* Samples after the last whole hop.
Remainders == {0, 662}

FrameRuns ==
    UNION { [1..k -> [len : FrameRunLens, mat : FrameMaterials]] : k \in 1..MaxRuns }

\* Tracks shorter than one hop: a single frame.
ShortTracks ==
    { [runs |-> <<[len |-> 1, mat |-> m]>>, len_y |-> r] :
        m \in FrameMaterials, r \in Remainders \ {0} }

FrameTracks ==
    { [runs |-> r, len_y |-> (NumFrames(r) - 1) * HopLength + rem] :
        r \in FrameRuns, rem \in Remainders } \cup ShortTracks

\* The longest novelty curve the boundary detector is run on, and the longest
\* the labellers are run on.
MaxCurve == 5

MaxSpikes == 4

Curves(values, longest) == UNION { [1..L -> values] : L \in 1..longest }

\* frame_times of m frames: gap apart from first on, the last one tail after
\* the one before it.
FrameGrid(first, gap, tail, m) ==
    [i \in 1..m |-> IF i = m /\ m > 1 THEN first + (m - 2) * gap + tail
                    ELSE first + (i - 1) * gap]

\* The columns of a feature set, one material each.
Columns(n, mats) == { [i \in 1..n |-> [len |-> 1, mat |-> f[i]]] : f \in [1..n -> mats] }

\* What feature extraction and compute_novelty_functions hand on for a curve c.
\* Framewise, n columns give n frame times and a curve of max(1, n - 1) values;
\* beat-synchronous, m beats give m frame times (the first beat one second in),
\* m + 1 columns and a curve of max(1, m) values.  A single column gives the
\* curve [0.0], and no beat at all gives an empty frame_times.
NoveltyTracks(curves, keysets, gaps, tails, lens, mats) ==
    UNION { { [novelty_functions |-> [k \in keys |-> c],
               frame_times |-> FrameGrid(IF beat_sync THEN Sec(1) ELSE 0, gap,
                                         IF beat_sync THEN tail ELSE gap,
                                         IF beat_sync THEN Len(c) ELSE Len(c) + 1),
               min_segment_length |-> min_len,
               runs |-> cols] :
                keys \in keysets, gap \in gaps, tail \in tails, min_len \in lens,
                beat_sync \in BOOLEAN, cols \in Columns(Len(c) + 1, mats) } :
            c \in curves }
    \cup
    { [novelty_functions |-> [k \in keys |-> <<0>>],
       frame_times |-> ft,
       min_segment_length |-> min_len,
       runs |-> cols] :
        keys \in keysets, ft \in {<<>>, <<0>>}, min_len \in lens,
        cols \in Columns(1, mats) }

InitStructure(tracks, entry) ==
    /\ fn = entry
    /\ args \in tracks
    /\ pc = "detect"
    /\ boundary_times = <<>>
    /\ sections = <<>>
    /\ processed = <<>>
    /\ ret = NoRet
    /\ calls = <<>>
    /\ NoServer /\ NoFrontend

NextStructure ==
    \/ DetectBoundariesNovelty
    \/ LabelSectionsAdvanced
    \/ DetectBoundariesFrameBased
    \/ LabelSectionsFrameBased
    \/ PostProcessSections

\* The boundary detectors on every curve, with one plain feature set.
InitBoundaries ==
    \/ InitStructure(NoveltyTracks(Curves({0, 95, 100}, MaxCurve),
                                   {{"combined", "harmonic"}},
                                   {Sec(3), Sec(6)}, {Sec(3)}, {Sec(6), Sec(8)}, {2})
                       \cup NoveltyTracks(Curves({0, 95, 100}, MaxCurve),
                                          {{"harmonic"}, {}},
                                          {Sec(3)}, {Sec(3)}, {Sec(6)}, {2}),
                     "improved_analyze_song_structure")
    \/ InitStructure(FrameTracks, "analyze_song_structure")

SpecBoundaries == InitBoundaries /\ [][NextStructure]_vars

\* The labellers on every feature set, with the curves that are spike trains.
InitSections ==
    \/ InitStructure(NoveltyTracks(Curves({0, 100}, MaxSpikes), {{"combined", "harmonic"}},
                                   {Sec(6)}, {Sec(6), Sec(1)}, {Sec(6)}, {2, 5}),
                     "improved_analyze_song_structure")
    \/ InitStructure(FrameTracks, "analyze_song_structure")

SpecSections == InitSections /\ [][NextStructure]_vars

(***************************************************************************)
(* The structural analyses: what a state holds                             *)
(***************************************************************************)
Improved == fn = "improved_analyze_song_structure"

\* The boundary detector has returned.
Detected == pc \in {"label", "labelled", "raised", "done"}

\* The labeller has returned a list of sections.
Labelled == pc \in {"labelled", "done"}

\* The total duration the detector closes the boundary list with.
TotalDuration ==
    IF Improved
    THEN IF Len(args.frame_times) > 0
         THEN args.frame_times[Len(args.frame_times)] ELSE DefaultDuration
    ELSE Duration(args.len_y)

\* The minimum segment length the detector was run with, in ticks.
MinSegmentLength == IF Improved THEN args.min_segment_length ELSE FrameMinSectionLength

\* The boundary list is the equal split the detector falls back to.
EqualSplit ==
    boundary_times \in {EqualThirds(TotalDuration), EqualQuarters(TotalDuration)}

StrictlyIncreasing(s) == \A i \in 1..Len(s) - 1 : s[i] < s[i + 1]

Contiguous(secs) == \A i \in 1..Len(secs) - 1 : secs[i].end = secs[i + 1].start

(***************************************************************************)
(* Properties of the structural analyses                                   *)
(***************************************************************************)
\* C1: the boundary sequence either detector returns is strictly increasing,
\* starts at 0.0 and ends at the total duration, whatever the input (a single
\* frame, a zero duration), and so every section has 0 <= start < end.
C1_BoundariesStrictlyIncreasing ==
    /\ Detected =>
         /\ Len(boundary_times) > 0
         /\ boundary_times[1] = 0
         /\ boundary_times[Len(boundary_times)] = TotalDuration
         /\ StrictlyIncreasing(boundary_times)
    /\ Labelled =>
         \A i \in 1..Len(sections) : 0 <= sections[i].start /\ sections[i].start < sections[i].end

\* C2: the sections a labeller returns, and the sections post_process_sections
\* makes of them, are contiguous: each one ends where the next one starts.
C2_SectionsContiguous ==
    /\ Labelled => Contiguous(sections)
    /\ pc = "done" => Contiguous(processed)

\* A merge has happened and left more than one section.
C2_MergedAndContiguous ==
    /\ pc = "done"
    /\ Len(processed) >= 2
    /\ Len(processed) < Len(sections)

\* C4: a boundary detector never returns fewer than 3 boundaries, so a
\* structural analysis that returns has at least 2 sections.
C4_AtLeastThreeBoundaries ==
    /\ Detected => Len(boundary_times) >= 3
    /\ Labelled => Len(sections) >= 2

\* A detection that found exactly one boundary inside the track.
C4_TwoSections ==
    /\ Labelled
    /\ ~EqualSplit
    /\ Len(boundary_times) = 3
    /\ Len(sections) = 2

\* C5: before post-processing every section, the last one included, is at
\* least the minimum segment length long (6.0 s improved, 12.0 s frame-based),
\* unless the boundaries are the equal-split fallback.
C5_MinimumSectionLength ==
    (Detected /\ ~EqualSplit) =>
        \A i \in 1..Len(boundary_times) - 1 :
            boundary_times[i + 1] - boundary_times[i] >= MinSegmentLength

(***************************************************************************)
(* detect_key_and_changes, detect_key_changes_in_segments (example.py)     *)
(*                                                                         *)
(* chroma is args.runs.  A mean chroma vector divided by its sum is a      *)
(* vector of ten-thousandths; a correlation is ten-thousandths too.  The   *)
(* key profiles are kept in hundredths and undivided: a Pearson            *)
(* correlation does not change when a profile is divided by its sum.       *)
(***************************************************************************)
note_names == <<"C", "C#", "D", "D#", "E", "F", "F#", "G", "G#", "A", "A#", "B">>

Keys == 1..24

key_names ==
    [k \in Keys |-> IF k <= 12 THEN note_names[k] \o " major"
                    ELSE note_names[k - 12] \o " minor"]

major_profile == <<635, 223, 348, 233, 438, 409, 252, 519, 239, 366, 229, 288>>

minor_profile == <<633, 268, 352, 538, 260, 353, 254, 475, 398, 269, 334, 317>>

\* np.roll(profile, i)[b] is profile[(b - i) mod 12].
key_profiles ==
    [k \in Keys |->
        [b \in 1..12 |-> At(IF k <= 12 THEN major_profile ELSE minor_profile,
                            (b - 1 + 12 - ((k - 1) % 12)) % 12)]]

\* np.mean(chroma[:, a:b], axis=1) divided by its sum when that is positive:
\* the sums over the slice divided by their sum.
NormalizedMean(runs, a, b) ==
    LET sums  == [i \in 1..12 |-> ChromaSum(runs, i - 1, a, b)]
        total == SeqSum(sums)
    IN  IF total > 0 THEN [i \in 1..12 |-> (sums[i] * 10000) \div total] ELSE sums

\* num / den to k decimals, digit by digit (num >= 0, den > 0).
RECURSIVE Quotient(_, _, _)
Quotient(num, den, k) ==
    IF k = 0 THEN num \div den
    ELSE LET scale == IF k = 1 THEN 10 ELSE IF k = 2 THEN 100
                      ELSE IF k = 3 THEN 1000 ELSE 10000
         IN  (num \div den) * scale + Quotient((num % den) * 10, den, k - 1)

\* 12 times 12 times the variance of a 12-vector.
Variance12(x) == 12 * SeqSumSq(x) - SeqSum(x) * SeqSum(x)

\* np.corrcoef(x, profile)[0, 1]: NaN when x has no variance, and clipped to
\* [-1, 1] otherwise.
corrcoef(x, profile) ==
    LET vx  == Variance12(x)
        cov == 12 * SeqSum([i \in 1..12 |-> x[i] * profile[i]])
                 - SeqSum(x) * SeqSum(profile)
        den == Isqrt(vx) * Isqrt(Variance12(profile))
        c   == Min2(10000, Quotient(Abs(cov), den, 4))
    IN  IF vx = 0 THEN [isnan |-> TRUE, value |-> 0]
        ELSE [isnan |-> FALSE, value |-> IF cov < 0 THEN 0 - c ELSE c]

\* Scores that keep a NaN, as the least of all numbers.
KeyScores_KeepNaN(x) ==
    [k \in Keys |-> LET correlation == corrcoef(x, key_profiles[k])
                    IN  IF correlation.isnan THEN 0 - 20000 ELSE correlation.value]

\* correlation if not np.isnan(correlation) else 0, for each profile.
KeyScores(x) ==
    [k \in Keys |-> LET correlation == corrcoef(x, key_profiles[k])
                    IN  IF correlation.isnan THEN 0 ELSE correlation.value]

\* np.argmax: the first index of the greatest score.
argmax(scores) ==
    CHOOSE k \in DOMAIN scores :
        /\ \A j \in DOMAIN scores : scores[j] <= scores[k]
        /\ \A j \in DOMAIN scores : j < k => scores[j] < scores[k]

\* hop_length = 2048 "used in chroma calculation", whatever hop the chroma has.
AssumedHopLength == 2048

\* int(10.0 * (sr / hop_length))
segment_size == (10 * SR) \div AssumedHopLength

\* range(0, chroma.shape[1] - segment_size, segment_size // 2)
SegmentStarts(n) ==
    SortedSeq({ f \in 0..(n - segment_size - 1) : f % (segment_size \div 2) = 0 })

\* The best key of the segment that starts at start_frame, and its score.
SegmentKey(runs, start_frame) ==
    LET end_frame == Min2(start_frame + segment_size, NumFrames(runs))
        scores    == KeyScores(NormalizedMean(runs, start_frame, end_frame))
        idx       == argmax(scores)
    IN  [key |-> key_names[idx], confidence |-> scores[idx]]

NoKey == "None"

\* A key change that is reported whatever its confidence.
IsKeyChange_AnyConfidence(previous_key, seg) ==
    previous_key # NoKey /\ seg.key # previous_key

\* previous_key is not None and segment_key != previous_key, and
\* confidence > 0.3.
IsKeyChange(previous_key, seg) ==
    previous_key # NoKey /\ seg.key # previous_key /\ seg.confidence > 3000

\* The loop over the segments, from the i-th on.
RECURSIVE KeyChangesFrom(_, _, _, _, _)
KeyChangesFrom(runs, starts, i, previous_key, key_changes) ==
    IF i > Len(starts) THEN key_changes
    ELSE LET seg == SegmentKey(runs, starts[i])
             change == [timestamp  |-> Round2(starts[i] * AssumedHopLength * 12),
                        from_key   |-> previous_key,
                        to_key     |-> seg.key,
                        confidence |-> RoundHalfEven(seg.confidence, 100)]
         IN  KeyChangesFrom(runs, starts, i + 1, seg.key,
                 IF IsKeyChange(previous_key, seg)
                 THEN Append(key_changes, change) ELSE key_changes)

detect_key_changes_in_segments(runs) ==
    IF NumFrames(runs) < segment_size * 2 THEN <<>>
    ELSE KeyChangesFrom(runs, SegmentStarts(NumFrames(runs)), 1, NoKey, <<>>)

detect_key_and_changes(runs) ==
    LET key_scores == KeyScores(NormalizedMean(runs, 0, NumFrames(runs)))
    IN  [detected_key |-> key_names[argmax(key_scores)],
         key_changes  |-> detect_key_changes_in_segments(runs)]

DetectKeyAndChanges ==
    /\ fn = "detect_key_and_changes" /\ pc = "call"
    /\ ret' = [kind |-> "returned", value |-> detect_key_and_changes(args.runs)]
    /\ pc' = "done"
    /\ UNCHANGED <<fn, args, boundary_times, sections, processed, calls>>
    /\ UNCHANGED <<serverVars, frontendVars>>

\* The longest run-length encoding of a chroma the key detector is run on.
MaxKeyRuns == 3

\* Run lengths in frames: a segment and a half.
KeyRunLens == {160}

\* Silence, the two chords and the noise whose chroma is constant.
KeyMaterials == {1, 2, 3, 4}

KeyTracks ==
    { [runs |-> r] :
        r \in UNION { [1..k -> [len : KeyRunLens, mat : KeyMaterials]] : k \in 1..MaxKeyRuns } }

InitCall(tracks, entry) ==
    /\ fn = entry
    /\ args \in tracks
    /\ pc = "call"
    /\ boundary_times = <<>>
    /\ sections = <<>>
    /\ processed = <<>>
    /\ ret = NoRet
    /\ calls = <<>>
    /\ NoServer /\ NoFrontend

InitKeys == InitCall(KeyTracks, "detect_key_and_changes")

SpecKeys == InitKeys /\ [][DetectKeyAndChanges]_vars

(***************************************************************************)
(* detect_chords (example.py)                                              *)
(*                                                                         *)
(* chroma is args.runs, in frames of hop_length = 2048 samples.  A cosine  *)
(* similarity is ten-thousandths.                                          *)
(***************************************************************************)
Chords == 1..24

chord_names ==
    [k \in Chords |-> IF k <= 12 THEN note_names[k] ELSE note_names[k - 12] \o "m"]

\* The pitch classes of a template: root, major or minor third, fifth.
TemplateBins(k) ==
    LET root == (k - 1) % 12
    IN  {root, (root + (IF k <= 12 THEN 4 ELSE 3)) % 12, (root + 7) % 12}

chord_templates ==
    [k \in Chords |-> [b \in 1..12 |-> IF (b - 1) \in TemplateBins(k) THEN 1 ELSE 0]]

\* np.dot(mean_chroma, template) / (chroma_norm * template_norm_val), and 0
\* when the chroma is all zero.
CosineSimilarity(mean_chroma, template) ==
    LET dot == SeqSum([i \in 1..12 |-> mean_chroma[i] * template[i]])
        den == Isqrt(SeqSumSq(template) * SeqSumSq(mean_chroma))
    IN  IF den > 0 THEN (dot * 10000) \div den ELSE 0

\* The loop over the templates: the first of the best, "N" when no score is
\* positive.
RECURSIVE BestChordFrom(_, _, _, _)
BestChordFrom(mean_chroma, k, best_chord, best_score) ==
    IF k > 24 THEN [chord |-> best_chord, score |-> best_score]
    ELSE LET score == CosineSimilarity(mean_chroma, chord_templates[k])
         IN  IF score > best_score
             THEN BestChordFrom(mean_chroma, k + 1, chord_names[k], score)
             ELSE BestChordFrom(mean_chroma, k + 1, best_chord, best_score)

\* int(2.0 * sr / hop_length)
frames_per_segment == (2 * SR) \div HopLength

\* range(0, chroma.shape[1] - frames_per_segment, frames_per_segment)
ChordStarts(n) ==
    SortedSeq({ f \in 0..(n - frames_per_segment - 1) : f % frames_per_segment = 0 })

\* A threshold that lets every segment through.
IsConfidentChord_Always(best_score) == best_score >= 0

\* confidence_threshold = 0.3; best_score > confidence_threshold
IsConfidentChord(best_score) == best_score > 3000

\* The chords of the segments, from the i-th on: those that score over 0.3.
RECURSIVE DetectedChordsFrom(_, _, _, _)
DetectedChordsFrom(runs, starts, i, detected_chords) ==
    IF i > Len(starts) THEN detected_chords
    ELSE LET n           == NumFrames(runs)
             start_frame == starts[i]
             end_frame   == Min2(start_frame + frames_per_segment, n)
             best        == BestChordFrom(NormalizedMean(runs, start_frame, end_frame),
                                          1, "N", 0)
             chord       == [name       |-> best.chord,
                             start      |-> Round2(FrameTime(Min2(start_frame, n - 1))),
                             end        |-> Round2(FrameTime(Min2(end_frame - 1, n - 1))),
                             confidence |-> RoundHalfEven(best.score, 100)]
         IN  DetectedChordsFrom(runs, starts, i + 1,
                 IF IsConfidentChord(best.score) THEN Append(detected_chords, chord)
                 ELSE detected_chords)

\* Two chords averaged without rounding the half up or down: the sum.
MergeChord_Sum(last_chord, chord) ==
    [last_chord EXCEPT !.end = chord.end,
                       !.confidence = last_chord.confidence + chord.confidence]

\* The last merged chord extended by chord: round((a + b) / 2, 2).
MergeChord(last_chord, chord) ==
    [last_chord EXCEPT !.end = chord.end,
                       !.confidence = RoundHalfEven(last_chord.confidence + chord.confidence, 2)]

\* A merge condition that never holds.
IsSameChordNearby_Never(last_chord, chord) == FALSE

\* chord["name"] == last_chord["name"] and
\* abs(chord["start"] - last_chord["end"]) < 0.5
IsSameChordNearby(last_chord, chord) ==
    chord.name = last_chord.name /\ Abs(chord.start - last_chord.end) < 50

\* The merge of consecutive identical chords, from the i-th detected chord on.
RECURSIVE MergeChordsFrom(_, _, _)
MergeChordsFrom(detected_chords, i, merged_chords) ==
    IF i > Len(detected_chords) THEN merged_chords
    ELSE LET chord      == detected_chords[i]
             last_chord == merged_chords[Len(merged_chords)]
         IN  MergeChordsFrom(detected_chords, i + 1,
                 IF IsSameChordNearby(last_chord, chord)
                 THEN [merged_chords EXCEPT ![Len(merged_chords)] =
                                                MergeChord(last_chord, chord)]
                 ELSE Append(merged_chords, chord))

detect_chords(runs) ==
    LET detected_chords == DetectedChordsFrom(runs, ChordStarts(NumFrames(runs)), 1, <<>>)
    IN  IF detected_chords # <<>>
        THEN MergeChordsFrom(detected_chords, 2, <<detected_chords[1]>>)
        ELSE <<>>

DetectChords ==
    /\ fn = "detect_chords" /\ pc = "call"
    /\ ret' = [kind |-> "returned", value |-> detect_chords(args.runs)]
    /\ pc' = "done"
    /\ UNCHANGED <<fn, args, boundary_times, sections, processed, calls>>
    /\ UNCHANGED <<serverVars, frontendVars>>

\* The longest run-length encoding of a chroma the chord detector is run on.
MaxChordRuns == 3

\* Run lengths in frames: half a segment and two segments.
ChordRunLens == {10, 42}

ChordMaterials == {1, 2, 3, 4}

ChordTracks ==
    { [runs |-> r] :
        r \in UNION { [1..k -> [len : ChordRunLens, mat : ChordMaterials]] :
                        k \in 1..MaxChordRuns } }

InitChords == InitCall(ChordTracks, "detect_chords")

SpecChords == InitChords /\ [][DetectChords]_vars

(***************************************************************************)
(* analyze_audio_file (example.py)                                         *)
(*                                                                         *)
(* args holds the path and whether it exists, the audio as its features in *)
(* frames of 2048 samples (args.runs) and its length in samples, what the  *)
(* beat tracker finds (args.tempo in hundredths of a BPM, args.beats the   *)
(* beat frames), and the library call that raises on this audio, if any    *)
(* (args.fails).                                                           *)
(***************************************************************************)
Steps ==
    << "os.path.exists", "librosa.load", "librosa.get_duration",
       "librosa.beat.beat_track", "librosa.feature.chroma_stft",
       "detect_key_and_changes", "analyze_song_structure", "detect_chords" >>

StepIndex(name) == CHOOSE i \in 1..Len(Steps) : Steps[i] = name

\* The calls that can raise on an audio file that exists: decoding, beat
\* tracking, and the feature extraction of each analysis.
Failures ==
    { "none", "librosa.load", "librosa.beat.beat_track", "librosa.feature.chroma_stft",
      "analyze_song_structure", "detect_chords" }

\* librosa's default hop length, which chroma_stft is called with.
DefaultHopLength == 512

\* librosa.feature.chroma_stft(y=y, sr=sr): the chroma of the same audio in
\* frames of 512 samples, len_y // 512 + 1 of them.
ChromaAtDefaultHop(runs, len_y) ==
    LET n == len_y \div DefaultHopLength + 1
        k == HopLength \div DefaultHopLength
    IN  [j \in 1..Len(runs) |->
            [len |-> IF j = Len(runs) THEN n - k * RunStart(runs, j) ELSE k * runs[j].len,
             mat |-> runs[j].mat]]

analyze_song_structure(runs, len_y) ==
    label_sections_frame_based(detect_boundaries_frame_based(runs, Duration(len_y)), runs)

\* The dictionary analyze_audio_file returns.
AnalysisResult(a) ==
    LET key == detect_key_and_changes(ChromaAtDefaultHop(a.runs, a.len_y))
    IN  [file_path      |-> a.file_path,
         duration       |-> Round2(Duration(a.len_y)),
         tempo          |-> RoundHalfEven(a.tempo, 10),
         key            |-> key.detected_key,
         key_changes    |-> key.key_changes,
         sections       |-> analyze_song_structure(a.runs, a.len_y),
         beats_detected |-> Len(a.beats),
         chords         |-> detect_chords(a.runs)]

Raised(error) == [kind |-> "raised", error |-> error]

\* An analysis that decodes the file before it looks for it.
analyze_audio_file_LoadsFirst(a) ==
    IF a.fails = "librosa.load"
    THEN [calls |-> <<"librosa.load">>, ret |-> Raised(a.fails)]
    ELSE IF ~a.file_exists
    THEN [calls |-> <<"librosa.load", "os.path.exists">>, ret |-> Raised("FileNotFoundError")]
    ELSE IF a.fails # "none"
    THEN [calls |-> SubSeq(Steps, 1, StepIndex(a.fails)), ret |-> Raised(a.fails)]
    ELSE [calls |-> Steps, ret |-> [kind |-> "returned", value |-> AnalysisResult(a)]]

\* An analysis that returns what it has when a call raises.
analyze_audio_file_ReturnsPartial(a) ==
    IF ~a.file_exists
    THEN [calls |-> SubSeq(Steps, 1, 1), ret |-> Raised("FileNotFoundError")]
    ELSE IF a.fails # "none"
    THEN [calls |-> SubSeq(Steps, 1, StepIndex(a.fails)),
          ret   |-> [kind  |-> "returned",
                     value |-> [file_path |-> a.file_path, error |-> a.fails]]]
    ELSE [calls |-> Steps, ret |-> [kind |-> "returned", value |-> AnalysisResult(a)]]

\* The calls analyze_audio_file makes and what it returns or raises: an
\* exception of a call is not caught.
analyze_audio_file(a) ==
    IF ~a.file_exists
    THEN [calls |-> SubSeq(Steps, 1, 1), ret |-> Raised("FileNotFoundError")]
    ELSE IF a.fails # "none"
    THEN [calls |-> SubSeq(Steps, 1, StepIndex(a.fails)), ret |-> Raised(a.fails)]
    ELSE [calls |-> Steps, ret |-> [kind |-> "returned", value |-> AnalysisResult(a)]]

AnalyzeAudioFile ==
    /\ fn = "analyze_audio_file" /\ pc = "call"
    /\ calls' = analyze_audio_file(args).calls
    /\ ret' = analyze_audio_file(args).ret
    /\ pc' = "done"
    /\ UNCHANGED <<fn, args, boundary_times, sections, processed>>
    /\ UNCHANGED <<serverVars, frontendVars>>

(***************************************************************************)
(* extract_comprehensive_features (improved_segmentation.py): the time     *)
(* grid, the tempo and the number of columns of each feature family.       *)
(***************************************************************************)
FeatureFamilies == {"chroma", "mfcc", "spectral", "rms", "tempogram"}

\* The fallback tempo, in hundredths of a BPM.
FallbackTempo == 12000

\* librosa.frames_to_time(frames, sr=sr, hop_length=512), in ticks.
FramesToTime(frames) == [i \in 1..Len(frames) |-> frames[i] * DefaultHopLength * 12]

extract_comprehensive_features(a) ==
    LET beat_sync == a.fails # "librosa.beat.beat_track"
        n_frames  == a.len_y \div DefaultHopLength + 1
    IN  IF a.fails \notin {"none", "librosa.beat.beat_track"} THEN Raised(a.fails)
        ELSE [kind  |-> "returned",
              value |-> [beat_sync   |-> beat_sync,
                         tempo       |-> IF beat_sync THEN a.tempo ELSE FallbackTempo,
                         frame_times |-> IF beat_sync THEN FramesToTime(a.beats)
                                         ELSE FramesToTime([i \in 1..n_frames |-> i - 1]),
                         columns     |-> [f \in FeatureFamilies |->
                                             IF beat_sync THEN Len(a.beats) + 1
                                             ELSE n_frames]]]

ExtractComprehensiveFeatures ==
    /\ fn = "extract_comprehensive_features" /\ pc = "call"
    /\ ret' = extract_comprehensive_features(args)
    /\ pc' = "done"
    /\ UNCHANGED <<fn, args, boundary_times, sections, processed, calls>>
    /\ UNCHANGED <<serverVars, frontendVars>>

\* The audio files the whole analysis is run on: half a second, a chord held
\* for 24 seconds, two chords, and silence before a chord.
AnalysisTracks ==
    { [runs |-> <<[len |-> 6, mat |-> 2]>>, len_y |-> 5 * HopLength + 662],
      [runs |-> <<[len |-> 260, mat |-> 3]>>, len_y |-> 259 * HopLength],
      [runs |-> <<[len |-> 140, mat |-> 2], [len |-> 260, mat |-> 3]>>,
       len_y |-> 399 * HopLength + 662],
      [runs |-> <<[len |-> 140, mat |-> 1], [len |-> 140, mat |-> 2]>>,
       len_y |-> 279 * HopLength] }

\* What the beat tracker finds: nothing, or a tempo and beats.
BeatTracks ==
    { [tempo |-> 0, beats |-> <<>>],
      [tempo |-> 11748, beats |-> <<22, 44, 66>>],
      [tempo |-> 14356, beats |-> <<18, 36>>] }

AnalysisArgs ==
    { [file_path |-> "song.mp3", file_exists |-> e, fails |-> f,
       runs |-> t.runs, len_y |-> t.len_y, tempo |-> b.tempo, beats |-> b.beats] :
        e \in BOOLEAN, f \in Failures, t \in AnalysisTracks, b \in BeatTracks }

InitAnalysis ==
    \/ InitCall(AnalysisArgs, "analyze_audio_file")
    \/ InitCall({ a \in AnalysisArgs : a.file_exists }, "extract_comprehensive_features")

NextAnalysis == AnalyzeAudioFile \/ ExtractComprehensiveFeatures

SpecAnalysis == InitAnalysis /\ [][NextAnalysis]_vars

\* Every labeller, the key detector and the chord detector.
InitConfidence == InitSections \/ InitKeys \/ InitChords

NextConfidence == NextStructure \/ DetectKeyAndChanges \/ DetectChords

SpecConfidence == InitConfidence /\ [][NextConfidence]_vars

(***************************************************************************)
(* Properties of the confidences                                           *)
(***************************************************************************)
Returned(entry) == fn = entry /\ pc = "done" /\ ret.kind = "returned"

\* C3: the confidence of every section, of every chord (a chord whose
\* confidence was averaged in a merge included) and of every key-change event
\* lies in [0, 1].
C3_ConfidenceInUnitInterval ==
    /\ \A i \in 1..Len(sections) : 0 <= sections[i].confidence /\ sections[i].confidence <= 100
    /\ \A i \in 1..Len(processed) :
         0 <= processed[i].confidence /\ processed[i].confidence <= 1000
    /\ Returned("detect_chords") =>
         \A i \in 1..Len(ret.value) :
            0 <= ret.value[i].confidence /\ ret.value[i].confidence <= 100
    /\ Returned("detect_key_and_changes") =>
         \A i \in 1..Len(ret.value.key_changes) :
            /\ 0 <= ret.value.key_changes[i].confidence
            /\ ret.value.key_changes[i].confidence <= 100

\* A chord merged from segments of different confidence.
C3_MergedChord ==
    /\ Returned("detect_chords")
    /\ \E i \in 1..Len(ret.value) :
         /\ ret.value[i].end - ret.value[i].start > 200
         /\ ret.value[i].confidence \notin {50, 99}

(***************************************************************************)
(* Properties of the key detector                                          *)
(***************************************************************************)
KeyNameSet == { key_names[k] : k \in Keys }

\* C9: detect_key_and_changes does not raise on a zero-sum or a constant
\* chroma: a zero-sum mean chroma is left undivided, a NaN correlation scores
\* 0, and the overall key is one of the 24 key names.
C9_KeyDetectionTotal ==
    (fn = "detect_key_and_changes" /\ pc = "done") =>
        LET n    == NumFrames(args.runs)
            sums == [i \in 1..12 |-> ChromaSum(args.runs, i - 1, 0, n)]
        IN  \A x \in {NormalizedMean(args.runs, 0, n)} : \A scores \in {KeyScores(x)} :
                /\ ret.kind = "returned"
                /\ ret.value.detected_key \in KeyNameSet
                /\ SeqSum(sums) = 0 => x = sums
                /\ \A k \in Keys : corrcoef(x, key_profiles[k]).isnan => scores[k] = 0
                /\ \A k \in Keys : scores[k] <= scores[argmax(scores)]
                /\ ret.value.detected_key = key_names[argmax(scores)]

\* A chroma of silence and noise only: zero-sum segments, constant segments
\* and a constant mean.
C9_SilenceAndNoise ==
    /\ Returned("detect_key_and_changes")
    /\ NumFrames(args.runs) >= 2 * segment_size
    /\ { args.runs[j].mat : j \in 1..Len(args.runs) } = {1, 4}
    /\ ret.value.detected_key = "C major"

\* The best key of each segment the loop analyses, in order.
SegmentKeys(runs) ==
    LET n      == NumFrames(runs)
        starts == IF n < segment_size * 2 THEN <<>> ELSE SegmentStarts(n)
    IN  [i \in 1..Len(starts) |-> [start |-> starts[i], best |-> SegmentKey(runs, starts[i])]]

\* C10: a key-change event is emitted for a segment exactly when it is not
\* the first, its best key differs from the best key of the segment before
\* and its best correlation exceeds 0.3; from_key is the key of the segment
\* before and to_key the new key, so from_key # to_key, and the events are in
\* increasing order of timestamp.
C10_KeyChangeEvents ==
    (fn = "detect_key_and_changes" /\ pc = "done") =>
        LET segs    == SegmentKeys(args.runs)
            changed == { i \in 2..Len(segs) :
                            /\ segs[i].best.key # segs[i - 1].best.key
                            /\ segs[i].best.confidence > 3000 }
            order   == SortedSeq(changed)
            events  == ret.value.key_changes
        IN  /\ Len(events) = Len(order)
            /\ \A j \in 1..Len(events) :
                 /\ events[j].timestamp = Round2(segs[order[j]].start * AssumedHopLength * 12)
                 /\ events[j].from_key = segs[order[j] - 1].best.key
                 /\ events[j].to_key = segs[order[j]].best.key
                 /\ events[j].from_key # events[j].to_key
            /\ \A j \in 1..Len(events) - 1 : events[j].timestamp < events[j + 1].timestamp

\* An event, and a segment whose key differs from the one before without an
\* event.
C10_EventAndSuppressedChange ==
    /\ Returned("detect_key_and_changes")
    /\ Len(ret.value.key_changes) >= 1
    /\ LET segs == SegmentKeys(args.runs)
       IN  \E i \in 2..Len(segs) :
              /\ segs[i].best.key # segs[i - 1].best.key
              /\ segs[i].best.confidence <= 3000

(***************************************************************************)
(* Properties of analyze_audio_file                                        *)
(***************************************************************************)
ResultFields ==
    { "file_path", "duration", "tempo", "key", "key_changes", "sections",
      "beats_detected", "chords" }

\* C6: analyze_audio_file on a path that does not exist raises
\* FileNotFoundError before decoding, beat tracking, feature extraction or
\* any other step runs, and returns no result.
C6_MissingFileRaisesFirst ==
    (fn = "analyze_audio_file" /\ pc = "done" /\ ~args.file_exists) =>
        /\ ret = Raised("FileNotFoundError")
        /\ calls = <<"os.path.exists">>

\* A missing file that could not be decoded either.
C6_MissingAndUndecodable ==
    /\ fn = "analyze_audio_file" /\ pc = "done"
    /\ ~args.file_exists
    /\ args.fails = "librosa.load"
    /\ ret.kind = "raised"

\* C7: a beat tracker that raises is never fatal: the analysis completes and
\* returns a valid result, with every feature family on the uniform frame
\* grid and the tempo 120 BPM.
C7_BeatTrackingFailureNotFatal ==
    (fn \in {"analyze_audio_file", "extract_comprehensive_features"} /\ pc = "done"
       /\ args.file_exists /\ args.fails = "librosa.beat.beat_track") =>
        /\ ret.kind = "returned"
        /\ fn = "analyze_audio_file" =>
             /\ DOMAIN ret.value = ResultFields
             /\ ret.value.tempo = 1200
        /\ fn = "extract_comprehensive_features" =>
             /\ ret.value.tempo = FallbackTempo
             /\ \A f \in FeatureFamilies :
                  ret.value.columns[f] = Len(ret.value.frame_times)
             /\ \A i \in 1..Len(ret.value.frame_times) :
                  ret.value.frame_times[i] = (i - 1) * DefaultHopLength * 12

\* C8: analyze_audio_file is all or nothing: it returns a result with
\* duration, tempo, key, key_changes, sections, beats_detected and chords, or
\* it raises one error; it never returns a result that lacks a field.
C8_AllOrNothing ==
    (fn = "analyze_audio_file" /\ pc = "done") =>
        \/ ret.kind = "returned" /\ DOMAIN ret.value = ResultFields
        \/ ret.kind = "raised" /\ DOMAIN ret = {"kind", "error"}

\* The last call raised, after every other result was computed.
C8_RaisedAtLastCall ==
    /\ fn = "analyze_audio_file" /\ pc = "done"
    /\ calls = Steps
    /\ ret.kind = "raised"

\* C11: in analyze_audio_file the timestamp of a key-change event is the
\* start, in seconds of the audio, of the chroma segment in which the new key
\* was found (its first frame times the hop the chroma was computed with), and
\* so lies between 0 and the reported duration.
C11_KeyChangeTimestampInAudio ==
    Returned("analyze_audio_file") =>
        \A segs \in {SegmentKeys(ChromaAtDefaultHop(args.runs, args.len_y))} :
            LET changed == { i \in 2..Len(segs) :
                                /\ segs[i].best.key # segs[i - 1].best.key
                                /\ segs[i].best.confidence > 3000 }
                order   == SortedSeq(changed)
                events  == ret.value.key_changes
            IN  /\ Len(events) = Len(order)
                /\ \A j \in 1..Len(events) :
                     /\ events[j].timestamp
                          = Round2(segs[order[j]].start * DefaultHopLength * 12)
                     /\ 0 <= events[j].timestamp
                     /\ events[j].timestamp <= ret.value.duration

(***************************************************************************)
(* Properties of the chord detector                                        *)
(***************************************************************************)
\* The best cosine similarity of the 2-second segment that starts at
\* start_frame with any of the 24 templates.
BestSimilarity(runs, start_frame) ==
    LET mean_chroma == NormalizedMean(runs, start_frame, start_frame + frames_per_segment)
    IN  SetMax({ CosineSimilarity(mean_chroma, chord_templates[k]) : k \in Chords })

\* The returned chord spans the segment that starts at start_frame.
Spans(chord, start_frame) ==
    /\ chord.start <= Round2(FrameTime(start_frame))
    /\ Round2(FrameTime(start_frame + frames_per_segment - 1)) <= chord.end

\* C12: a 2-second segment is in the output of detect_chords only if its best
\* template similarity exceeds 0.3 (a silent segment never is), so every
\* returned chord is named after one of the 24 triads, never "N", and starts
\* before it ends.
C12_ChordsAboveThreshold ==
    Returned("detect_chords") =>
        /\ \A i \in 1..Len(ret.value) :
             /\ \E k \in Chords : ret.value[i].name = chord_names[k]
             /\ ret.value[i].name # "N"
             /\ ret.value[i].start < ret.value[i].end
        /\ \A f \in { g \in 0..(NumFrames(args.runs) - frames_per_segment - 1) :
                        g % frames_per_segment = 0 } :
             (\E i \in 1..Len(ret.value) : Spans(ret.value[i], f))
                 <=> BestSimilarity(args.runs, f) > 3000

\* A track with a silent segment, which is left out, before a segment with a
\* chord, which is returned.
C12_SilentSegmentSkipped ==
    /\ Returned("detect_chords")
    /\ BestSimilarity(args.runs, 0) = 0
    /\ ret.value # <<>>
    /\ ret.value[1].start >= Round2(FrameTime(frames_per_segment))

\* The starts of the 2-second segments of a chroma of n frames, as a set.
SegmentStartSet(n) ==
    { g \in 0..(n - frames_per_segment - 1) : g % frames_per_segment = 0 }

\* round(best_score, 2) of the segment that starts at start_frame.
SegmentConfidence(runs, start_frame) ==
    RoundHalfEven(BestSimilarity(runs, start_frame), 100)

\* C13: in the list detect_chords returns, identical chords less than 0.5 s
\* apart have been merged: no two consecutive chords have the same name with
\* |next.start - previous.end| < 0.5, the chords are in time order without
\* overlap, and each chord runs from the start of its first segment to the end
\* of its last with a confidence that is an average of its segments'.
C13_IdenticalChordsMerged ==
    Returned("detect_chords") =>
        /\ \A i \in 1..(Len(ret.value) - 1) :
             /\ ~(/\ ret.value[i + 1].name = ret.value[i].name
                  /\ Abs(ret.value[i + 1].start - ret.value[i].end) < 50)
             /\ ret.value[i].start < ret.value[i + 1].start
             /\ ret.value[i].end <= ret.value[i + 1].start
        /\ \A i \in 1..Len(ret.value) :
             \A span \in {{ f \in SegmentStartSet(NumFrames(args.runs)) :
                               Spans(ret.value[i], f) }} :
                /\ span # {}
                /\ ret.value[i].start = Round2(FrameTime(SetMin(span)))
                /\ ret.value[i].end
                     = Round2(FrameTime(SetMax(span) + frames_per_segment - 1))
                /\ \A confs \in {{ SegmentConfidence(args.runs, f) : f \in span }} :
                     /\ SetMin(confs) <= ret.value[i].confidence
                     /\ ret.value[i].confidence <= SetMax(confs)

\* A chord merged from two segments, and the same chord again after two
\* seconds that have no chord: near segments merged, far ones kept apart.
C13_MergedAndKeptApart ==
    /\ Returned("detect_chords")
    /\ Len(ret.value) >= 2
    /\ ret.value[1].end - ret.value[1].start > 200
    /\ ret.value[2].name = ret.value[1].name
    /\ ret.value[2].start - ret.value[1].end >= 50

(***************************************************************************)
(* POST /analyze (server.py)                                               *)
(*                                                                         *)
(* args is the request: whether the multipart body has an 'audio' part     *)
(* (args.has_audio), the part's filename as a sequence of characters       *)
(* (args.filename), the uploaded audio as analyze_audio_file sees it, and  *)
(* the call that raises while the upload is handled, if any (args.fails).  *)
(* ret is the response: its status and its JSON body; calls lists what the *)
(* handler did to the file system and the analysis it ran.                 *)
(***************************************************************************)
ALLOWED_EXTENSIONS ==
    { <<"m", "p", "3">>, <<"w", "a", "v">>, <<"a", "i", "f", "f">>, <<"a", "i", "f">>,
      <<"m", "4", "a">>, <<"f", "l", "a", "c">>, <<"o", "g", "g">>, <<"a", "a", "c">> }

\* str.lower() on the characters of the file names used here.
Lower(s) ==
    [i \in 1..Len(s) |->
        CASE s[i] = "M" -> "m"
          [] s[i] = "P" -> "p"
          [] s[i] = "W" -> "w"
          [] s[i] = "A" -> "a"
          [] s[i] = "V" -> "v"
          [] OTHER -> s[i]]

\* filename.rsplit(".", 1)[1]: what follows the last dot.
Extension(filename) ==
    LET last == SetMax({ i \in 1..Len(filename) : filename[i] = "." })
    IN  SubSeq(filename, last + 1, Len(filename))

\* A check that lets every file name through.
allowed_file_Any(filename) == TRUE

\* "." in filename and filename.rsplit(".", 1)[1].lower() in ALLOWED_EXTENSIONS
allowed_file(filename) ==
    /\ \E i \in 1..Len(filename) : filename[i] = "."
    /\ Lower(Extension(filename)) \in ALLOWED_EXTENSIONS

\* "_".join(filename.split()) after the path separators became spaces.
RECURSIVE JoinWordsFrom(_, _, _, _)
JoinWordsFrom(s, i, out, pending) ==
    IF i > Len(s) THEN out
    ELSE IF s[i] \in {" ", "/"} THEN JoinWordsFrom(s, i + 1, out, out # <<>>)
    ELSE JoinWordsFrom(s, i + 1,
                       (IF pending THEN Append(out, "_") ELSE out) \o <<s[i]>>, FALSE)

\* str.strip("._")
RECURSIVE Strip(_)
Strip(s) ==
    IF s = <<>> THEN s
    ELSE IF s[1] \in {".", "_"} THEN Strip(Tail(s))
    ELSE IF s[Len(s)] \in {".", "_"} THEN Strip(SubSeq(s, 1, Len(s) - 1))
    ELSE s

\* werkzeug.utils.secure_filename on ASCII names: separators and blanks
\* become one underscore, leading and trailing dots and underscores go.
secure_filename(filename) == Strip(JoinWordsFrom(filename, 1, <<>>, FALSE))

\* UPLOAD_FOLDER = tempfile.gettempdir()
UPLOAD_FOLDER == <<"/", "t", "m", "p">>

\* os.path.join(app.config["UPLOAD_FOLDER"], filename)
TempPath(filename) == UPLOAD_FOLDER \o <<"/">> \o filename

\* jsonify(body), status
Response(status, body) == [kind |-> "response", status |-> status, body |-> body]

\* The except clause of the handler: 500 with the exception's message.
AnalysisFailed(error) ==
    Response(500, [success |-> FALSE, error |-> "Analysis failed: " \o error])

\* The success body built from what analyze_audio_file returned.
SuccessBody(filename, results) ==
    [success   |-> TRUE,
     file_name |-> filename,
     analysis  |-> [duration       |-> results.duration,
                    tempo          |-> results.tempo,
                    key            |-> results.key,
                    key_changes    |-> results.key_changes,
                    sections       |-> results.sections,
                    beats_detected |-> results.beats_detected,
                    chords         |-> results.chords]]

\* The upload is saved under its secured name, analysed, and removed again
\* whether the analysis returned or raised.
HandleUpload(req) ==
    LET filename  == secure_filename(req.filename)
        temp_path == TempPath(filename)
        cleanup   == <<"file.save", "analyze_audio_file", "os.path.exists", "os.remove">>
    IN  IF req.fails = "file.save"
        THEN [calls |-> <<"file.save">>, ret |-> AnalysisFailed(req.fails)]
        ELSE CHOOSE handled \in
                 { [calls |-> cleanup,
                    ret   |-> IF analysis.ret.kind = "raised"
                              THEN AnalysisFailed(analysis.ret.error)
                              ELSE Response(200, SuccessBody(filename, analysis.ret.value))] :
                     analysis \in {analyze_audio_file(
                                      [file_path |-> temp_path, file_exists |-> TRUE,
                                       fails |-> req.fails, runs |-> req.runs,
                                       len_y |-> req.len_y, tempo |-> req.tempo,
                                       beats |-> req.beats])} } : TRUE

\* The handler of POST /analyze.  The message of an unsupported format ends
\* with the allowed extensions in the order of a Python set, which is not
\* modelled.
analyze_audio(req) ==
    IF ~req.has_audio
    THEN [calls |-> <<>>, ret |-> Response(400, [error |-> "No audio file provided"])]
    ELSE IF req.filename = <<>>
    THEN [calls |-> <<>>, ret |-> Response(400, [error |-> "No file selected"])]
    ELSE IF ~allowed_file(req.filename)
    THEN [calls |-> <<>>,
          ret   |-> Response(400,
                      [error |-> "Unsupported file format. Supported formats: "])]
    ELSE HandleUpload(req)

AnalyzeAudio ==
    /\ fn = "analyze_audio" /\ pc = "call"
    /\ \A handled \in {analyze_audio(args)} :
         /\ calls' = handled.calls
         /\ ret' = handled.ret
    /\ pc' = "done"
    /\ UNCHANGED <<fn, args, boundary_times, sections, processed>>
    /\ UNCHANGED <<serverVars, frontendVars>>

\* The file names of the uploads: none, allowed extensions in lower and
\* upper case, a path, blanks, several dots, and names that are not allowed.
Filenames ==
    { <<>>,
      <<"s", "o", "n", "g", ".", "m", "p", "3">>,
      <<"s", "o", "n", "g", ".", "M", "P", "3">>,
      <<"m", "y", " ", "s", "o", "n", "g", ".", "w", "a", "v">>,
      <<".", ".", "/", "s", "o", "n", "g", ".", "o", "g", "g">>,
      <<"s", "o", "n", "g", ".", "v", "1", ".", "f", "l", "a", "c">>,
      <<".", "m", "4", "a">>,
      <<"s", "o", "n", "g", ".", "t", "x", "t">>,
      <<"s", "o", "n", "g", ".", "m", "p", "3", ".", "t", "x", "t">>,
      <<"s", "o", "n", "g">>,
      <<"m", "p", "3">>,
      <<"s", "o", "n", "g", ".">> }

\* The uploads: a chord held for 24 seconds and two chords.
UploadTracks == { t \in AnalysisTracks : t.len_y > 200 * HopLength /\ t.runs[1].mat # 1 }

\* The requests: without an 'audio' part, and with one of every file name,
\* audio and failure.
Requests ==
    { [has_audio |-> h, filename |-> IF h THEN f ELSE <<>>, fails |-> x,
       runs |-> t.runs, len_y |-> t.len_y, tempo |-> b.tempo, beats |-> b.beats] :
        h \in BOOLEAN, f \in Filenames, x \in Failures \cup {"file.save"},
        t \in UploadTracks, b \in BeatTracks }

InitServer == InitCall(Requests, "analyze_audio")

SpecServer == InitServer /\ [][AnalyzeAudio]_vars

(***************************************************************************)
(* Properties of POST /analyze                                             *)
(***************************************************************************)
Responded == fn = "analyze_audio" /\ pc = "done"

\* C14: every response of POST /analyze, to a request that fails validation
\* as to one whose analysis fails, is either a success body (success = true
\* and an analysis object) or a failure body (success = false and an error
\* message).
C14_ResponseShapes ==
    Responded =>
        /\ "success" \in DOMAIN ret.body
        /\ \/ ret.body.success /\ "analysis" \in DOMAIN ret.body
           \/ ~ret.body.success /\ "error" \in DOMAIN ret.body

\* The file name ends in a dot followed by an allowed extension, in any case.
HasAllowedExtension(filename) ==
    \E i \in 1..Len(filename) :
        /\ filename[i] = "."
        /\ Lower(SubSeq(filename, i + 1, Len(filename))) \in ALLOWED_EXTENSIONS

\* C15: POST /analyze validates the request before it saves or analyses
\* anything, in this order: no 'audio' part gives 400 "No audio file
\* provided", an empty file name 400 "No file selected", an extension that
\* is not allowed 400 "Unsupported file format..."; in none of these cases is
\* a temporary file written or analyze_audio_file called.
C15_ValidationBeforeSaving ==
    Responded =>
        /\ ~args.has_audio =>
             /\ ret.status = 400 /\ ret.body.error = "No audio file provided"
             /\ calls = <<>>
        /\ (args.has_audio /\ args.filename = <<>>) =>
             /\ ret.status = 400 /\ ret.body.error = "No file selected"
             /\ calls = <<>>
        /\ (args.has_audio /\ args.filename # <<>> /\ ~HasAllowedExtension(args.filename)) =>
             /\ ret.status = 400
             /\ ret.body.error = "Unsupported file format. Supported formats: "
             /\ calls = <<>>
        /\ (args.has_audio /\ HasAllowedExtension(args.filename)) =>
             /\ calls # <<>> /\ calls[1] = "file.save"
             /\ ret.status # 400

\* An upload whose name has a dot but no allowed extension after its last
\* dot (song.txt, song.mp3.txt) is refused for its format, nothing saved.
C15_UnsupportedFormatRefused ==
    /\ Responded
    /\ args.has_audio
    /\ \E i \in 1..Len(args.filename) : args.filename[i] = "."
    /\ ~HasAllowedExtension(args.filename)
    /\ ret.status = 400
    /\ ret.body.error = "Unsupported file format. Supported formats: "
    /\ calls = <<>>

(***************************************************************************)
(* compute_novelty_functions (improved_segmentation.py)                    *)
(*                                                                         *)
(* args.columns is the material of every column of the feature matrices,   *)
(* which all have the same number of columns; args.frame_times is the      *)
(* FeatureSet's time grid.  A curve is in hundredths.                      *)
(***************************************************************************)
\* Two cepstral coefficients of each material (MFCCs can be negative).
mfcc_of == << <<-600, 0>>, <<-200, 80>>, <<-100, 60>>, <<-50, 10>>, <<-80, 40>> >>

\* features['chroma'], features['mfcc'], features['rms'] and
\* features['spectral'] (its centroid row), column by column.
FeatureMatrix(family, columns) ==
    [i \in 1..Len(columns) |->
        CASE family = "chroma"   -> Materials[columns[i]].chroma
          [] family = "mfcc"     -> mfcc_of[columns[i]]
          [] family = "rms"      -> <<Materials[columns[i]].rms>>
          [] family = "spectral" -> <<Materials[columns[i]].centroid>>]

\* np.sum(np.abs(np.diff(matrix, axis=1)), axis=0)
DiffAbsSum(matrix) ==
    [i \in 1..(Len(matrix) - 1) |->
        SeqSum([r \in 1..Len(matrix[i]) |-> Abs(matrix[i + 1][r] - matrix[i][r])])]

\* The weights of scipy's Gaussian kernels for sigma = 1.0 (radius 4) and
\* sigma = 1.5 (radius 6), from the centre outwards, in thousandths.
GaussianKernel(sigma) ==
    IF sigma = 10 THEN <<400, 242, 54, 4, 0>>
    ELSE <<266, 213, 109, 36, 8, 1, 0>>

\* The index scipy's mode='reflect' reads for position i (0-based) of n values.
Reflect(i, n) ==
    LET j == i % (2 * n)
    IN  IF j < n THEN j ELSE 2 * n - 1 - j

\* ndimage.gaussian_filter1d(x, sigma), in thousandths of the unit of x.
gaussian_filter1d(x, sigma) ==
    LET kernel == GaussianKernel(sigma)
        radius == Len(kernel) - 1
    IN  [i \in 1..Len(x) |->
            SeqSum([k \in 1..(2 * radius + 1) |->
                       kernel[Abs(k - radius - 1) + 1]
                           * x[Reflect(i - 1 + k - radius - 1, Len(x)) + 1]])]

\* curve / (np.max(curve) + 1e-8), in hundredths.
Normalized(curve) ==
    LET peak == SetMax({ curve[i] : i \in 1..Len(curve) })
    IN  [i \in 1..Len(curve) |-> IF peak > 0 THEN (curve[i] * 100) \div peak ELSE 0]

\* The novelty of one feature family: the smoothed, normalized size of the
\* change from each column to the next, and [0.0] for a single column.
FamilyNovelty(matrix) ==
    IF Len(matrix) > 1 THEN Normalized(gaussian_filter1d(DiffAbsSum(matrix), 10))
    ELSE <<0>>

\* weights = [0.4, 0.3, 0.2, 0.1]
weights == <<40, 30, 20, 10>>

\* The weighted sum of the curves that are as long as the first, smoothed
\* with sigma = 1.5.
CombinedNovelty(all_novelty) ==
    LET sum == [i \in 1..Len(all_novelty[1]) |->
                   SeqSum([j \in 1..Len(all_novelty) |->
                              IF Len(all_novelty[j]) = Len(all_novelty[1])
                              THEN weights[j] * all_novelty[j][i] ELSE 0])]
        smooth == gaussian_filter1d(sum, 15)
    IN  [i \in 1..Len(smooth) |-> smooth[i] \div 100000]

compute_novelty_functions(features) ==
    LET harmonic == FamilyNovelty(FeatureMatrix("chroma", features.columns))
        timbral  == FamilyNovelty(FeatureMatrix("mfcc", features.columns))
        energy   == FamilyNovelty(FeatureMatrix("rms", features.columns))
        spectral == FamilyNovelty(FeatureMatrix("spectral", features.columns))
    IN  [harmonic |-> harmonic, timbral |-> timbral, energy |-> energy,
         spectral |-> spectral,
         combined |-> CombinedNovelty(<<harmonic, timbral, energy, spectral>>)]

ComputeNoveltyFunctions ==
    /\ fn = "compute_novelty_functions" /\ pc = "call"
    /\ ret' = [kind |-> "returned", value |-> compute_novelty_functions(args)]
    /\ pc' = "done"
    /\ UNCHANGED <<fn, args, boundary_times, sections, processed, calls>>
    /\ UNCHANGED <<serverVars, frontendVars>>

\* The most columns of a feature set the novelty functions are computed on.
MaxColumns == 4

NoveltyMaterials == {1, 2, 3}

\* The frames between two beats.
BeatGap == 22

\* The feature sets extract_comprehensive_features hands on: framewise, n
\* columns with n frame times; beat-synchronous, m beats with m frame times
\* and m + 1 columns.
NoveltyFeatures ==
    UNION { { [columns |-> c, beat_sync |-> FALSE,
               frame_times |-> FramesToTime([i \in 1..n |-> i - 1])] :
                c \in [1..n -> NoveltyMaterials] } : n \in 1..MaxColumns }
    \cup
    UNION { { [columns |-> c, beat_sync |-> TRUE,
               frame_times |-> FramesToTime([i \in 1..(n - 1) |-> BeatGap * i])] :
                c \in [1..n -> NoveltyMaterials] } : n \in 1..MaxColumns }

InitNovelty == InitCall(NoveltyFeatures, "compute_novelty_functions")

SpecNovelty == InitNovelty /\ [][ComputeNoveltyFunctions]_vars

\* C16: every curve compute_novelty_functions returns (harmonic, timbral,
\* energy, spectral and combined) is as long as frame_times, and all of its
\* values lie in [0, 1].
C16_CurvesMatchFrameTimes ==
    Returned("compute_novelty_functions") =>
        \A key \in DOMAIN ret.value :
            /\ Len(ret.value[key]) = Len(args.frame_times)
            /\ \A i \in 1..Len(ret.value[key]) :
                 0 <= ret.value[key][i] /\ ret.value[key][i] <= 100

(***************************************************************************)
(* Properties of the fallbacks and of the labels                           *)
(***************************************************************************)
\* The boundaries the detector has left after filtering: none when the
\* novelty detector has no usable curve.
FilteredDetected ==
    IF Improved
    THEN IF {"combined", "harmonic"} \cap DOMAIN args.novelty_functions = {} THEN <<>>
         ELSE FilteredPeaks(args.novelty_functions, args.frame_times,
                            args.min_segment_length)
    ELSE FilteredBoundaries(args.runs, Duration(args.len_y))

\* C17: if the feature matrix has fewer than 32 frames, or filtering leaves
\* fewer than 3 boundaries, the detector returns an equal split of the total
\* duration (quarters for the short input of the frame-based detector,
\* thirds otherwise); otherwise it returns the filtered boundaries unchanged.
C17_FallbackPolicy ==
    Detected =>
        \A filtered \in {FilteredDetected} :
            IF NumFrames(args.runs) < MinFrames \/ Len(filtered) < 3
            THEN boundary_times =
                    IF ~Improved /\ NumFrames(args.runs) < MinFrames
                    THEN EqualQuarters(TotalDuration) ELSE EqualThirds(TotalDuration)
            ELSE boundary_times = filtered

\* The frames of the tracks the labeller is studied on, 4 seconds apart.
LabelFrames == 20

\* The frames at which the novelty curve of such a track can have a spike.
SpikeFrames == {1, 3, 6, 8, 9, 12, 15, 17}

\* Tracks of 80 seconds: a curve with spikes, of which the detector makes
\* up to eight sections, over one material or two.
LabelTracks ==
    { [novelty_functions |-> [k \in {"combined", "harmonic"} |->
                                 [i \in 1..LabelFrames |->
                                     IF (i - 1) \in spikes THEN 100 ELSE 0]],
       frame_times |-> FrameGrid(Sec(4), Sec(4), Sec(4), LabelFrames),
       min_segment_length |-> Sec(6),
       runs |-> IF split = 0 THEN <<[len |-> LabelFrames + 1, mat |-> m1]>>
                ELSE <<[len |-> split, mat |-> m1],
                       [len |-> LabelFrames + 1 - split, mat |-> m2]>>] :
        spikes \in SUBSET SpikeFrames, split \in {0, 7, 13},
        m1 \in {2, 3}, m2 \in {2, 3, 5} }

InitLabels == InitStructure(LabelTracks, "improved_analyze_song_structure")

NextLabels == DetectBoundariesNovelty \/ LabelSectionsAdvanced

SpecLabels == InitLabels /\ [][NextLabels]_vars

\* The kind of a label: a numbered or unnumbered verse is a verse.
LabelKind(name) == IF IsVerse(name) THEN "Verse" ELSE name

\* C18: label_sections_advanced gives each segment the label of the first
\* rule that matches: (1) ratio < 0.1 Intro; (2) ratio > 0.9, or last segment
\* with ratio > 0.85, Outro; (3) high energy, complex and at least 12 s long
\* Chorus; (4) shorter than 12 s, not harmonically stable and
\* 0.3 < ratio < 0.8 Bridge; (5) ratio < 0.6 and not high energy a verse;
\* (6) otherwise a verse when the energy is not high, Chorus when it is.
C18_LabelTable ==
    (Improved /\ Labelled) =>
        \A chars \in {section_characteristics(boundary_times, args.runs, args.frame_times)} :
        \A st \in {SectionStats(chars)} :
        \A i \in 1..Len(sections) :
            LET c    == chars[i]
                high == IsHighEnergy(c, st)
            IN  LabelKind(sections[i].name) =
                    IF RatioLt(c, 10) THEN "Intro"
                    ELSE IF RatioGt(c, 90) \/ (i = Len(sections) /\ RatioGt(c, 85))
                    THEN "Outro"
                    ELSE IF high /\ IsComplex(c, st) /\ c.end_time - c.start_time >= Sec(12)
                    THEN "Chorus"
                    ELSE IF /\ c.end_time - c.start_time < Sec(12)
                            /\ ~IsStable(c)
                            /\ RatioGt(c, 30) /\ RatioLt(c, 80)
                    THEN "Bridge"
                    ELSE IF RatioLt(c, 60) /\ ~high THEN "Verse"
                    ELSE IF ~high THEN "Verse" ELSE "Chorus"

\* C19: every section label_sections_advanced gives a verse label is named
\* "Verse N", N being one more than the number of verse sections before it,
\* so the verse labels of a result read Verse 1, Verse 2, Verse 3, ... with
\* no gap, no repeat and no unnumbered "Verse".
C19_VersesNumberedInOrder ==
    (Improved /\ Labelled) =>
        \A i \in 1..Len(sections) :
            IsVerse(sections[i].name) =>
                sections[i].name =
                    VerseName(Cardinality({ j \in 1..(i - 1) : IsVerse(sections[j].name) }) + 1)

\* C20: a section confidence of label_sections_advanced is 0.5, plus at most
\* one label bonus (0.3 for an Intro with ratio < 0.15 or an Outro with
\* ratio > 0.85; 0.2 for a Chorus with high energy, a verse without, or a
\* short Bridge), plus 0.1 if the segment is harmonically stable, plus 0.1 if
\* its energy variation is below the average of all segments, capped at
\* 0.99; so it lies in [0.5, 0.99].
C20_ConfidenceFormula ==
    (Improved /\ Labelled) =>
        \A chars \in {section_characteristics(boundary_times, args.runs, args.frame_times)} :
        \A st \in {SectionStats(chars)} :
        \A i \in 1..Len(sections) :
            LET c      == chars[i]
                name   == sections[i].name
                high   == IsHighEnergy(c, st)
                bonus  == IF name = "Intro" /\ RatioLt(c, 15) THEN 30
                          ELSE IF name = "Outro" /\ RatioGt(c, 85) THEN 30
                          ELSE IF name = "Chorus" /\ high THEN 20
                          ELSE IF IsVerse(name) /\ ~high THEN 20
                          ELSE IF name = "Bridge" /\ c.end_time - c.start_time < Sec(12)
                          THEN 20
                          ELSE 0
                stable == IF IsStable(c) THEN 10 ELSE 0
                steady == IF Len(chars) * c.energy_variation
                               < SeqSum([j \in 1..Len(chars) |-> chars[j].energy_variation])
                          THEN 10 ELSE 0
            IN  /\ sections[i].confidence = Min2(99, 50 + bonus + stable + steady)
                /\ 50 <= sections[i].confidence
                /\ sections[i].confidence <= 99

\* An Intro whose bonuses add up to 1.0, capped at 0.99, next to a Bridge
\* that has its label bonus and no other, 0.7.
C20_CappedAndPlainBonus ==
    /\ Improved /\ Labelled
    /\ \E i \in 1..Len(sections) :
         sections[i].name = "Intro" /\ sections[i].confidence = 99
    /\ \E i \in 1..Len(sections) :
         sections[i].name = "Bridge" /\ sections[i].confidence = 70

(***************************************************************************)
(* Properties of post_process_sections                                     *)
(***************************************************************************)
PostProcessed == pc = "done" /\ fn \in {"improved_analyze_song_structure", "analyze_song_structure"}

\* name.lower().split()[0] of a section name: its leading word.
LeadingWord(name) ==
    IF name \in {"Intro", "Outro", "Chorus", "Bridge"} THEN name ELSE "Verse"

\* The pass as stated: from input section i on, the pairs <<first, last>> of
\* input sections that make one output section each.
RECURSIVE PassFrom(_, _, _)
PassFrom(secs, i, min_section_length) ==
    IF i > Len(secs) THEN <<>>
    ELSE IF /\ i < Len(secs)
            /\ \/ LeadingWord(secs[i].name) = LeadingWord(secs[i + 1].name)
               \/ secs[i].end - secs[i].start < min_section_length
               \/ secs[i + 1].end - secs[i + 1].start < min_section_length
         THEN <<(<<i, i + 1>>)>> \o PassFrom(secs, i + 2, min_section_length)
         ELSE <<(<<i, i>>)>> \o PassFrom(secs, i + 1, min_section_length)

C30_SpanKeptInputUntouched ==
    PostProcessed =>
        /\ sections = ret.input
        /\ Len(processed) = 0 <=> Len(ret.input) = 0
        /\ (Len(ret.input) > 0 /\ Contiguous(ret.input)) =>
              /\ processed[1].start = ret.input[1].start
              /\ processed[Len(processed)].end = ret.input[Len(ret.input)].end
        /\ \A k \in 1..Len(processed) :
              \E i \in 1..Len(ret.input) :
                  /\ processed[k].name = ret.input[i].name
                  /\ processed[k].start = ret.input[i].start
        /\ ~ret.merge_similar =>
              /\ Len(processed) = Len(ret.input)
              /\ \A k \in 1..Len(processed) :
                    /\ processed[k].name = ret.input[k].name
                    /\ processed[k].start = ret.input[k].start
                    /\ processed[k].end = ret.input[k].end
                    /\ processed[k].confidence = 10 * ret.input[k].confidence

\* A call that merged two sections of a contiguous list of at least three.
C30_MergedCopyOnly ==
    /\ PostProcessed /\ ret.merge_similar
    /\ Contiguous(ret.input)
    /\ Len(ret.input) >= 3
    /\ Len(processed) < Len(ret.input)
    /\ sections = ret.input

(***************************************************************************)
(* POST /analyze, request by request (server.py lines 59-118): the steps   *)
(* of the handler that read or write the upload folder, for the requests   *)
(* a threaded server handles at the same time.                             *)
(***************************************************************************)
\* The names of the uploads: two names with the same secured name, a name of
\* its own, and a name that is refused.
UploadNames ==
    { <<"s", "o", "n", "g", ".", "m", "p", "3">>,
      <<".", ".", "/", "s", "o", "n", "g", ".", "m", "p", "3">>,
      <<"m", "y", " ", "s", "o", "n", "g", ".", "w", "a", "v">>,
      <<"s", "o", "n", "g", ".", "t", "x", "t">> }

\* The requests the server handles at the same time.
MaxRequests == 2

RequestIds == 1..MaxRequests

\* The paths of the upload folder the requests can write.
TempPaths == { TempPath(secure_filename(f)) : f \in UploadNames }

\* What a path holds when no file is there; a file holds the upload of the
\* request that saved it last.
NoFile == 0

\* The calls of analyze_audio_file that can raise after the file was read.
AnalysisFailures == {"none", "librosa.beat.beat_track"}

\* os.remove that leaves the file where it is.
os_remove_KeepsFile(files, temp_path) == files

\* os.remove(temp_path)
os_remove(files, temp_path) == [files EXCEPT ![temp_path] = NoFile]

\* file.save(temp_path): the file is created or overwritten with the upload.
file_save(files, temp_path, upload) == [files EXCEPT ![temp_path] = upload]

\* The response to a request whose analysis returned or raised.
AnalysisResponse(request) ==
    IF request.outcome.kind = "raised"
    THEN AnalysisFailed(request.outcome.error)
    ELSE Response(200, [success   |-> TRUE,
                        file_name |-> secure_filename(request.filename),
                        analysis  |-> request.outcome.value])

\* Lines 60-80: the request is validated and the upload saved under its
\* secured name; an exception of file.save goes to the outer except clause.
SaveUpload(r) ==
    /\ requests[r].pc = "received"
    /\ IF requests[r].filename = <<>>
       THEN /\ requests' = [requests EXCEPT ![r].pc = "done",
                               ![r].ret = Response(400, [error |-> "No file selected"])]
            /\ disk' = disk
       ELSE IF ~allowed_file(requests[r].filename)
       THEN /\ requests' = [requests EXCEPT ![r].pc = "done",
                               ![r].ret = Response(400,
                                  [error |-> "Unsupported file format. Supported formats: "])]
            /\ disk' = disk
       ELSE \E saved \in BOOLEAN :
              LET temp_path == TempPath(secure_filename(requests[r].filename))
              IN  IF saved
                  THEN /\ disk' = file_save(disk, temp_path, r)
                       /\ requests' = [requests EXCEPT ![r].pc = "saved",
                                          ![r].temp_path = temp_path]
                  ELSE /\ disk' = disk
                       /\ requests' = [requests EXCEPT ![r].pc = "done",
                                          ![r].temp_path = temp_path,
                                          ![r].ret = AnalysisFailed("file.save")]
    /\ UNCHANGED <<backendVars, frontendVars>>

\* analyze_audio_file is called and looks for the file (example.py line 558).
CheckAudioFile(r) ==
    /\ requests[r].pc = "saved"
    /\ requests' = IF disk[requests[r].temp_path] = NoFile
                   THEN [requests EXCEPT ![r].pc = "analyzed",
                            ![r].outcome = Raised("FileNotFoundError")]
                   ELSE [requests EXCEPT ![r].pc = "analyzing"]
    /\ UNCHANGED <<disk, backendVars, frontendVars>>

\* librosa.load(file_path) decodes what the path holds at that moment.
LoadAudio(r) ==
    /\ requests[r].pc = "analyzing"
    /\ requests' = IF disk[requests[r].temp_path] = NoFile
                   THEN [requests EXCEPT ![r].pc = "analyzed",
                            ![r].outcome = Raised("librosa.load")]
                   ELSE [requests EXCEPT ![r].pc = "loaded",
                            ![r].read = disk[requests[r].temp_path]]
    /\ UNCHANGED <<disk, backendVars, frontendVars>>

\* The analyses of the decoded audio return their results or raise.
FinishAnalysis(r) ==
    /\ requests[r].pc = "loaded"
    /\ \E failure \in AnalysisFailures :
         requests' = [requests EXCEPT ![r].pc = "analyzed",
                         ![r].outcome =
                             IF failure = "none"
                             THEN [kind |-> "returned",
                                   value |-> [upload |-> requests[r].read]]
                             ELSE Raised(failure)]
    /\ UNCHANGED <<disk, backendVars, frontendVars>>

\* finally: os.path.exists(temp_path)
CheckTempFile(r) ==
    /\ requests[r].pc = "analyzed"
    /\ requests' = IF disk[requests[r].temp_path] = NoFile
                   THEN [requests EXCEPT ![r].pc = "cleaned", ![r].cleanup = "missing"]
                   ELSE [requests EXCEPT ![r].pc = "removing"]
    /\ UNCHANGED <<disk, backendVars, frontendVars>>

\* os.remove(temp_path); an OSError, of a file that is gone by now or of the
\* file system, is ignored.
RemoveTempFile(r) ==
    /\ requests[r].pc = "removing"
    /\ \E raises \in BOOLEAN :
         IF raises \/ disk[requests[r].temp_path] = NoFile
         THEN /\ disk' = disk
              /\ requests' = [requests EXCEPT ![r].pc = "cleaned", ![r].cleanup = "OSError"]
         ELSE /\ disk' = os_remove(disk, requests[r].temp_path)
              /\ requests' = [requests EXCEPT ![r].pc = "cleaned", ![r].cleanup = "removed"]
    /\ UNCHANGED <<backendVars, frontendVars>>

\* The response is returned: jsonify(response_data), or the 500 of the outer
\* except clause.
Respond(r) ==
    /\ requests[r].pc = "cleaned"
    /\ requests' = [requests EXCEPT ![r].pc = "done",
                       ![r].ret = AnalysisResponse(requests[r])]
    /\ UNCHANGED <<disk, backendVars, frontendVars>>

NextUploads ==
    \E r \in RequestIds :
        \/ SaveUpload(r)
        \/ CheckAudioFile(r)
        \/ LoadAudio(r)
        \/ FinishAnalysis(r)
        \/ CheckTempFile(r)
        \/ RemoveTempFile(r)
        \/ Respond(r)

\* No backend function is called on its own.
NoCall ==
    /\ fn = "none" /\ args = Absent /\ pc = "idle"
    /\ boundary_times = <<>> /\ sections = <<>> /\ processed = <<>>
    /\ ret = NoRet /\ calls = <<>>

\* A request as it arrives.
Received(filename) ==
    [pc |-> "received", filename |-> filename, temp_path |-> <<>>, read |-> NoFile,
     outcome |-> NoRet, cleanup |-> "none", ret |-> NoRet]

InitUploads ==
    /\ NoCall /\ NoFrontend
    /\ disk = [p \in TempPaths |-> NoFile]
    /\ requests \in { [r \in RequestIds |-> Received(names[r])] :
                        names \in [RequestIds -> UploadNames] }

SpecUploads == InitUploads /\ [][NextUploads]_vars

(***************************************************************************)
(* Properties of the temporary file of POST /analyze                       *)
(***************************************************************************)
\* The analysis of request r was called and the response returned.
Answered(r) == requests[r].pc = "done" /\ requests[r].outcome # NoRet

\* No other request saves its upload under the path of request r.
OwnPath(r) ==
    \A q \in RequestIds \ {r} :
        TempPath(secure_filename(requests[q].filename)) # requests[r].temp_path

C23_FileKeptDuringAnalysis ==
    \A r \in RequestIds :
        requests[r].pc \in {"analyzing", "loaded"} => disk[requests[r].temp_path] = r

(***************************************************************************)
(* AudioPlayer (src/frontend/audio_player.py): the flags of the player and *)
(* the commands it gives the VLC media player.                             *)
(***************************************************************************)
\* Python's None, where a file path or a result is expected.
None == "None"

\* The audio files the user opens.
AudioFiles == {"a.mp3", "b.wav"}

\* AudioPlayer.__init__; command is the last command given to media_player,
\* last_call the last method called and returned what it returned.
AudioPlayerInit ==
    [is_playing |-> FALSE, is_paused |-> FALSE, current_file |-> None,
     duration |-> 0, media |-> None, command |-> "none", last_call |-> "__init__",
     returned |-> None]

\* What loading a file meets: the call that raises, if any, the duration VLC
\* reports and the length mutagen reports (0: no length), in milliseconds.
Loads ==
    { [raises |-> x, duration_ms |-> d, length |-> m] :
        x \in {"none", "media_new", "set_media", "parse_with_options"},
        d \in {0, 180000}, m \in {0, 179000} }

\* AudioPlayer.load_file(file_path): the player after the call and the value
\* returned.
AudioPlayer_load_file(p, file_path, load) ==
    LET failed == [p EXCEPT !.last_call = "load_file", !.returned = "False"]
    IN  IF load.raises = "media_new" THEN [player |-> failed, ok |-> FALSE]
        ELSE IF load.raises = "set_media"
        THEN [player |-> [failed EXCEPT !.media = file_path], ok |-> FALSE]
        ELSE IF load.raises = "parse_with_options"
        THEN [player |-> [failed EXCEPT !.media = file_path, !.command = "set_media",
                                        !.current_file = file_path],
              ok |-> FALSE]
        ELSE [player |-> [failed EXCEPT !.media = file_path, !.command = "set_media",
                                        !.current_file = file_path,
                                        !.duration = IF load.duration_ms > 0
                                                     THEN load.duration_ms
                                                     ELSE load.length,
                                        !.returned = "True"],
              ok |-> TRUE]

\* A play() that resumes without clearing is_paused.
play_KeepsPaused(p) ==
    IF p.current_file # None
    THEN [p EXCEPT !.command = IF p.is_paused THEN "pause" ELSE "play",
                   !.is_playing = TRUE, !.last_call = "play", !.returned = None]
    ELSE [p EXCEPT !.last_call = "play", !.returned = None]

\* AudioPlayer.play()
play(p) ==
    IF p.current_file # None
    THEN IF p.is_paused
         THEN [p EXCEPT !.command = "pause", !.is_paused = FALSE,
                        !.is_playing = TRUE, !.last_call = "play", !.returned = None]
         ELSE [p EXCEPT !.command = "play", !.is_playing = TRUE, !.last_call = "play", !.returned = None]
    ELSE [p EXCEPT !.last_call = "play", !.returned = None]

\* AudioPlayer.pause()
pause(p) ==
    IF p.is_playing
    THEN [p EXCEPT !.command = "pause", !.is_paused = TRUE, !.is_playing = FALSE,
                   !.last_call = "pause", !.returned = None]
    ELSE [p EXCEPT !.last_call = "pause", !.returned = None]

\* AudioPlayer.stop()
stop(p) ==
    [p EXCEPT !.command = "stop", !.is_playing = FALSE, !.is_paused = FALSE,
              !.last_call = "stop", !.returned = None]

PlayerLoadFile ==
    /\ \E file_path \in AudioFiles, load \in Loads :
         player' = AudioPlayer_load_file(player, file_path, load).player
    /\ UNCHANGED <<backendVars, serverVars, window, workers, timeline>>

PlayerPlay ==
    /\ player' = play(player)
    /\ UNCHANGED <<backendVars, serverVars, window, workers, timeline>>

PlayerPause ==
    /\ player' = pause(player)
    /\ UNCHANGED <<backendVars, serverVars, window, workers, timeline>>

PlayerStop ==
    /\ player' = stop(player)
    /\ UNCHANGED <<backendVars, serverVars, window, workers, timeline>>

NextPlayer == PlayerLoadFile \/ PlayerPlay \/ PlayerPause \/ PlayerStop

\* An AudioPlayer on its own, as the tests build it.
InitPlayer ==
    /\ NoCall /\ NoServer
    /\ window = Absent /\ workers = Absent /\ timeline = Absent
    /\ player = AudioPlayerInit

SpecPlayer == InitPlayer /\ [][NextPlayer]_vars

(***************************************************************************)
(* Properties of AudioPlayer                                               *)
(***************************************************************************)
\* The fields of the player that a call to method changed, the record of
\* the call itself apart.
SameState(p, q) == [p EXCEPT !.last_call = q.last_call, !.returned = q.returned] = q

\* C26: is_playing and is_paused are never both true; play() with no file
\* loaded changes nothing, pause() changes something only when is_playing is
\* true, and stop() leaves both flags false.
C26_PlayerFlags ==
    /\ ~(player.is_playing /\ player.is_paused)
    /\ player.current_file = None => SameState(player, play(player))
    /\ ~player.is_playing => SameState(player, pause(player))
    /\ player.is_playing => ~SameState(player, pause(player))
    /\ ~stop(player).is_playing /\ ~stop(player).is_paused
    /\ player.last_call = "stop" => ~player.is_playing /\ ~player.is_paused

\* A paused player with a file has been resumed by play().
C26_ResumedFromPause ==
    /\ player.last_call = "play"
    /\ player.command = "pause"
    /\ player.is_playing /\ ~player.is_paused

\* C27: the play() that follows a successful load_file gives the media
\* player the play command and sets is_playing, whether the player was
\* playing, paused or stopped before the load.
C27_PlayAfterLoadStarts ==
    [][(/\ player.last_call = "load_file"
        /\ player.returned = "True"
        /\ player'.last_call = "play")
          => (player'.command = "play" /\ player'.is_playing)]_vars

(***************************************************************************)
(* SectionistMainWindow (src/frontend/main_window.py): the recent files.   *)
(***************************************************************************)
\* analysis_results before an analysis has finished.
NoResults == [kind |-> "None"]

\* SectionistMainWindow.__init__, and the state the model keeps with it:
\* recent_json is the list in ~/.sectionist_recent.json, queue the signals of
\* the workers that wait for the event loop, last_event the last handler
\* that ran, handled the number of calls of add_to_recent_files and running
\* whether the process is alive.
WindowInit(recent_json) ==
    [current_file |-> None, analysis_results |-> NoResults, recent_files |-> <<>>,
     recent_json |-> recent_json, analysis_worker |-> 0, status |-> "Ready",
     queue |-> <<>>, last_event |-> "__init__", handled |-> 0, running |-> TRUE]

\* self.recent_files[:10]
MaxRecentFiles == 10

\* list.remove(x): the first occurrence of x is taken out.
ListRemove(list, x) ==
    LET first == CHOOSE i \in 1..Len(list) :
                    list[i] = x /\ \A j \in 1..(i - 1) : list[j] # x
    IN  SubSeq(list, 1, first - 1) \o SubSeq(list, first + 1, Len(list))

\* A list of recent files that grows at its end.
add_to_recent_files_Appends(recent_files, file_path) ==
    LET removed  == IF \E i \in 1..Len(recent_files) : recent_files[i] = file_path
                    THEN ListRemove(recent_files, file_path) ELSE recent_files
        inserted == removed \o <<file_path>>
    IN  SubSeq(inserted, 1, Min2(MaxRecentFiles, Len(inserted)))

\* add_to_recent_files(file_path): the list after lines 589-593.
add_to_recent_files(recent_files, file_path) ==
    LET removed  == IF \E i \in 1..Len(recent_files) : recent_files[i] = file_path
                    THEN ListRemove(recent_files, file_path) ELSE recent_files
        inserted == <<file_path>> \o removed
    IN  SubSeq(inserted, 1, Min2(MaxRecentFiles, Len(inserted)))

\* The paths of the files opened in this and in earlier sessions.
PathNames == <<"p01", "p02", "p03", "p04", "p05", "p06", "p07", "p08", "p09", "p10", "p11">>

RecentPaths == { PathNames[i] : i \in 1..Len(PathNames) }

\* The lists an earlier session has saved: n paths from path k on.
SavedLists ==
    { [i \in 1..n |-> PathNames[((k + i - 2) % Len(PathNames)) + 1]] :
        k \in 1..Len(PathNames), n \in 0..MaxRecentFiles }

\* The calls of add_to_recent_files of one run.
MaxAdds == 2

\* window.load_recent_files(), called at startup (sectionist_gui.py line 77).
LoadRecentFiles ==
    /\ window.last_event = "__init__"
    /\ \E readable \in BOOLEAN :
         window' = [window EXCEPT
                       !.recent_files = IF readable THEN window.recent_json ELSE @,
                       !.last_event = "load_recent_files"]
    /\ UNCHANGED <<backendVars, serverVars, workers, player, timeline>>

\* add_to_recent_files(file_path) with save_recent_files, which fails
\* silently when the file cannot be written.
AddToRecentFiles ==
    /\ window.handled < MaxAdds
    /\ \E file_path \in RecentPaths, writable \in BOOLEAN :
         \A list \in {add_to_recent_files(window.recent_files, file_path)} :
             window' = [window EXCEPT
                           !.recent_files = list,
                           !.recent_json = IF writable THEN list ELSE @,
                           !.last_event = "add_to_recent_files",
                           !.handled = @ + 1]
    /\ UNCHANGED <<backendVars, serverVars, workers, player, timeline>>

NextRecent == LoadRecentFiles \/ AddToRecentFiles

InitRecent ==
    /\ NoCall /\ NoServer
    /\ workers = Absent /\ player = Absent /\ timeline = Absent
    /\ window \in { WindowInit(saved) : saved \in SavedLists }

SpecRecent == InitRecent /\ [][NextRecent]_vars

(***************************************************************************)
(* Properties of the recent files                                          *)
(***************************************************************************)
\* The list without path x.
Without(list, x) == SelectSeq(list, LAMBDA y : y # x)

NoDuplicates(list) == \A i, j \in 1..Len(list) : list[i] = list[j] => i = j

OneSecond == 10

\* The pixels within which a press takes hold of an edge.
EdgePixels == 5

\* The lengths of the sections of an analysis: half a second, one second and
\* three seconds.
SectionLengths == {5, 10, 30}

\* The sections on display.
MaxTimelineSections == 3

\* The section list with the given lengths, from 0.0 on.
RECURSIVE SectionsOfLengths(_, _, _)
SectionsOfLengths(lengths, i, start) ==
    IF i > Len(lengths) THEN <<>>
    ELSE <<[name |-> "Verse", start |-> start, end |-> start + lengths[i]]>>
            \o SectionsOfLengths(lengths, i + 1, start + lengths[i])

TimelineLists ==
    { SectionsOfLengths(lengths, 1, 0) :
        lengths \in UNION { [1..n -> SectionLengths] : n \in 2..MaxTimelineSections } }

\* The results of an analysis as analysis_finished stores them.
Results(file_path, secs) ==
    [kind |-> "dict", success |-> TRUE, file |-> file_path, sections |-> secs]

\* TimelineWidget.__init__, then set_duration and set_sections.
TimelineShowing(secs) ==
    [sections |-> secs, duration |-> secs[Len(secs)].end,
     resize_mode |-> "None", resize_section |-> 0]

\* The x of a mouse event: on the widget and, while a button is held, to the
\* left and to the right of it.
PointerXs(t) == { 5 * k : k \in -1..(t.duration \div 5 + 1) }

\* get_section_at_position(x)
get_section_at_position(t, x) ==
    IF Len(t.sections) = 0 \/ t.duration <= 0 THEN 0
    ELSE IF \E i \in 1..Len(t.sections) : t.sections[i].start <= x /\ x <= t.sections[i].end
    THEN CHOOSE i \in 1..Len(t.sections) :
            /\ t.sections[i].start <= x /\ x <= t.sections[i].end
            /\ \A j \in 1..(i - 1) : ~(t.sections[j].start <= x /\ x <= t.sections[j].end)
    ELSE 0

\* get_resize_mode(x, section_idx)
get_resize_mode(t, x, section_idx) ==
    IF section_idx < 1 \/ section_idx > Len(t.sections) THEN "None"
    ELSE IF Abs(x - t.sections[section_idx].start) <= EdgePixels THEN "start"
    ELSE IF Abs(x - t.sections[section_idx].end) <= EdgePixels THEN "end"
    ELSE "None"

\* new_time = max(min_time, min(timestamp, max_time)) for the separator
\* between section left and the next one.
SeparatorTime(secs, left, timestamp) ==
    Max2(secs[left].start + OneSecond, Min2(timestamp, secs[left + 1].end - OneSecond))

\* move_section_separator(separator_idx, new_time): the list after the call.
move_section_separator(results, separator_idx, new_time) ==
    IF results.kind # "dict" \/ separator_idx < 1 THEN results.sections
    ELSE IF separator_idx < Len(results.sections)
    THEN [results.sections EXCEPT ![separator_idx].end = new_time,
                                  ![separator_idx + 1].start = new_time]
    ELSE results.sections

\* resize_section(section_idx, new_start, new_end): the list after the call.
resize_section(results, section_idx, new_start, new_end) ==
    IF results.kind # "dict" \/ section_idx < 1 THEN results.sections
    ELSE IF section_idx <= Len(results.sections)
    THEN [results.sections EXCEPT ![section_idx].start = new_start,
                                  ![section_idx].end = new_end]
    ELSE results.sections

\* The list after mouseMoveEvent in resize mode, with the handler of the
\* signal it emits.
Dragged(t, results, x) ==
    LET idx     == t.resize_section
        section == t.sections[idx]
    IN  IF t.resize_mode = "start"
        THEN IF idx - 1 >= 1
             THEN move_section_separator(results, idx - 1,
                                         SeparatorTime(t.sections, idx - 1, x))
             ELSE resize_section(results, idx,
                                 Max2(0, Min2(x, section.end - OneSecond)), section.end)
        ELSE IF idx + 1 <= Len(t.sections)
             THEN move_section_separator(results, idx, SeparatorTime(t.sections, idx, x))
             ELSE resize_section(results, idx, section.start,
                                 Max2(section.start + OneSecond, Min2(x, t.duration)))

\* The list the window and the timeline share, after a handler changed it.
ShowSections(secs) ==
    /\ window' = [window EXCEPT !.analysis_results.sections = secs]
    /\ timeline' = [timeline EXCEPT !.sections = secs]

\* mousePressEvent: a double click on a section renames it; a press near an
\* edge of a section starts a drag.  A click elsewhere seeks, which changes
\* no section.
MousePress ==
    /\ \E x \in { p \in PointerXs(timeline) : 0 <= p /\ p <= timeline.duration } :
         \A section_idx \in {get_section_at_position(timeline, x)} :
            \/ /\ section_idx >= 1
               /\ \E new_name \in {"", "Solo"} :
                    IF new_name # ""
                    THEN ShowSections([timeline.sections EXCEPT
                                          ![section_idx].name = new_name])
                    ELSE UNCHANGED <<window, timeline>>
            \/ /\ window' = window
               /\ IF section_idx >= 1 /\ get_resize_mode(timeline, x, section_idx) # "None"
                  THEN timeline' = [timeline EXCEPT
                                       !.resize_mode = get_resize_mode(timeline, x, section_idx),
                                       !.resize_section = section_idx]
                  ELSE timeline' = timeline
    /\ UNCHANGED <<backendVars, serverVars, workers, player>>

\* mouseMoveEvent while an edge is held.
MouseMove ==
    /\ timeline.resize_mode # "None" /\ timeline.resize_section >= 1
    /\ \E x \in PointerXs(timeline) :
         ShowSections(Dragged(timeline, window.analysis_results, x))
    /\ UNCHANGED <<backendVars, serverVars, workers, player>>

\* mouseReleaseEvent
MouseRelease ==
    /\ timeline' = [timeline EXCEPT !.resize_mode = "None", !.resize_section = 0]
    /\ UNCHANGED <<backendVars, serverVars, window, workers, player>>

NextTimeline == MousePress \/ MouseMove \/ MouseRelease

\* A window that shows the sections of a finished analysis.
InitTimeline ==
    /\ NoCall /\ NoServer
    /\ workers = Absent /\ player = Absent
    /\ \E secs \in TimelineLists :
         /\ window = [WindowInit(<<>>) EXCEPT !.current_file = "a.mp3",
                         !.analysis_results = Results("a.mp3", secs),
                         !.last_event = "analysis_finished"]
         /\ timeline = TimelineShowing(secs)

SpecTimeline == InitTimeline /\ [][NextTimeline]_vars

(***************************************************************************)
(* Properties of the timeline                                              *)
(***************************************************************************)
\* The separator between section k and the next one moves in this step of a
\* drag.
SeparatorMoves(k) ==
    /\ timeline.resize_mode # "None"
    /\ Len(timeline'.sections) = Len(timeline.sections)
    /\ timeline'.sections[k].end # timeline.sections[k].end

Signal(name, text, results) == [signal |-> name, text |-> text, results |-> results]

Progress(text) == Signal("progress", text, NoResults)

ErrorSignal(text) == Signal("error", text, NoResults)

\* What a request meets: a response with its status and body, or an
\* exception of requests or of anything else.
Http(status, body) == [kind |-> "response", status |-> status, body |-> body, message |-> ""]

Raises(kind, message) == [kind |-> kind, status |-> 0, body |-> "", message |-> message]

\* GET /health
HealthOutcomes ==
    { Http(200, "healthy"), Http(503, ""), Raises("Timeout", ""),
      Raises("ConnectionError", ""), Raises("Exception", "health") }

\* open(self.file_path, 'rb') and POST /analyze.  The bodies: the results,
\* a failure with and without an error text, and a body that response.json()
\* or result.get cannot read.
AnalyzeOutcomes ==
    { Http(200, "success"), Http(200, "failure"), Http(200, "failure without error"),
      Http(200, "not a JSON object"), Http(400, "failure"), Http(500, "failure"),
      Raises("Timeout", ""), Raises("ConnectionError", ""), Raises("Exception", "open") }

\* The signal of the three except clauses.
ExceptionSignal(outcome) ==
    IF outcome.kind = "Timeout" THEN ErrorSignal("Analysis request timed out")
    ELSE IF outcome.kind = "ConnectionError"
    THEN ErrorSignal("Cannot connect to backend server. Make sure it's running on port 5000.")
    ELSE ErrorSignal("Analysis error: " \o outcome.message)

\* A health check that goes on to the upload whatever the status.
HealthSignals_AnyStatus(health) ==
    <<Progress("Checking backend connection...")>>
        \o IF health.kind = "response" THEN <<>> ELSE <<ExceptionSignal(health)>>

\* Lines 27-34: the signals up to the health check and after it.
HealthSignals(health) ==
    <<Progress("Checking backend connection...")>>
        \o IF health.kind = "response"
           THEN IF health.status # 200
                THEN <<ErrorSignal("Backend server is not responding")>>
                ELSE <<>>
           ELSE <<ExceptionSignal(health)>>

\* The results the backend returns for a file.
AnalysedSections == SectionsOfLengths(<<30, 30>>, 1, 0)

\* Lines 36-54: the signals of the upload and of its response.
UploadSignals(analyze, file_path) ==
    <<Progress("Uploading file for analysis...")>>
        \o IF analyze.kind # "response" THEN <<ExceptionSignal(analyze)>>
           ELSE IF analyze.status # 200
           THEN <<ErrorSignal("Server error: " \o ToString(analyze.status))>>
           ELSE IF analyze.body = "not a JSON object"
           THEN <<ExceptionSignal(Raises("Exception", "json"))>>
           ELSE IF analyze.body = "success"
           THEN <<Progress("Analysis completed successfully!"),
                  Signal("finished", "", Results(file_path, AnalysedSections))>>
           ELSE IF analyze.body = "failure"
           THEN <<ErrorSignal("Analysis failed: " \o "error")>>
           ELSE <<ErrorSignal("Analysis failed: " \o "Unknown error")>>

\* AnalysisWorker.__init__, before start().
NewWorker(file_path) ==
    [pc |-> "started", file_path |-> file_path, health |-> Raises("none", ""),
     analyze |-> Raises("none", ""), emitted |-> <<>>]

\* A worker that was never created.
NoWorker == [NewWorker(None) EXCEPT !.pc = "none"]

\* The signals of worker w as they wait in the event queue of the thread of
\* the window.
Queued(w, signals) == [i \in 1..Len(signals) |-> [worker |-> w, signal |-> signals[i]]]

\* run(), up to the health check: the run goes on to the upload when the
\* status is 200 and returns otherwise.
WorkerCheckHealth(w) ==
    /\ window.running
    /\ workers[w].pc = "started"
    /\ \E health \in HealthOutcomes :
         /\ workers' = [workers EXCEPT
                           ![w].pc = IF health.kind = "response" /\ health.status = 200
                                     THEN "uploading" ELSE "returned",
                           ![w].health = health,
                           ![w].emitted = @ \o HealthSignals(health)]
         /\ window' = [window EXCEPT !.queue = @ \o Queued(w, HealthSignals(health))]
    /\ UNCHANGED <<backendVars, serverVars, player, timeline>>

\* run(), from the upload to its end.
WorkerUpload(w) ==
    /\ window.running
    /\ workers[w].pc = "uploading"
    /\ \E analyze \in AnalyzeOutcomes :
         \A signals \in {UploadSignals(analyze, workers[w].file_path)} :
            /\ workers' = [workers EXCEPT ![w].pc = "returned",
                                          ![w].analyze = analyze,
                                          ![w].emitted = @ \o signals]
            /\ window' = [window EXCEPT !.queue = @ \o Queued(w, signals)]
    /\ UNCHANGED <<backendVars, serverVars, player, timeline>>

(***************************************************************************)
(* SectionistMainWindow: load_file, clear_file, analyze_audio and the      *)
(* slots of the worker's signals.                                          *)
(***************************************************************************)
\* The workers one run of the application starts.
MaxWorkers == 2

WorkerIds == 1..MaxWorkers

\* The workers started so far.
Started == { w \in WorkerIds : workers[w].pc # "none" }

\* TimelineWidget.__init__
TimelineInit == [sections |-> <<>>, duration |-> 0, resize_mode |-> "None", resize_section |-> 0]

\* analyze_audio() of a window with a current file: a new worker is started
\* and self.analysis_worker bound to it.  The last reference to a worker that
\* is still running is dropped with that: Qt lets the thread run on, or ends
\* the process (QThread: Destroyed while thread is still running).
StartWorker(win) ==
    \E survives \in BOOLEAN :
        LET w    == Cardinality(Started) + 1
            busy == win.analysis_worker # 0 /\ workers[win.analysis_worker].pc # "returned"
        IN  /\ survives \/ busy
            /\ IF survives
               THEN /\ workers' = [workers EXCEPT ![w] = NewWorker(win.current_file)]
                    /\ window' = [win EXCEPT !.analysis_worker = w,
                                             !.status = "Starting analysis..."]
               ELSE /\ workers' = workers
                    /\ window' = [win EXCEPT !.running = FALSE]

\* load_file(file_path) with auto_analyze
LoadFile ==
    /\ window.running
    /\ Cardinality(Started) < MaxWorkers
    /\ \E file_path \in AudioFiles, load \in Loads :
         \A loaded \in {AudioPlayer_load_file(player, file_path, load)} :
            /\ player' = loaded.player
            /\ timeline' = IF loaded.ok
                           THEN [timeline EXCEPT !.duration = loaded.player.duration]
                           ELSE timeline
            /\ StartWorker([window EXCEPT !.current_file = file_path,
                                          !.last_event = "load_file"])
    /\ UNCHANGED <<backendVars, serverVars>>

\* clear_file()
ClearFile ==
    /\ window.running
    /\ window' = [window EXCEPT !.current_file = None, !.analysis_results = NoResults,
                                !.last_event = "clear_file"]
    /\ player' = stop(player)
    /\ UNCHANGED <<backendVars, serverVars, workers, timeline>>

\* analyze_audio(), from the menu: nothing happens without a current file.
AnalyzeAudioAgain ==
    /\ window.running
    /\ Cardinality(Started) < MaxWorkers
    /\ IF window.current_file = None
       THEN /\ window' = [window EXCEPT !.last_event = "analyze_audio"]
            /\ workers' = workers
       ELSE StartWorker([window EXCEPT !.last_event = "analyze_audio"])
    /\ UNCHANGED <<backendVars, serverVars, player, timeline>>

\* The list of recent files and the file on disk after add_to_recent_files.
RecentAdded(win, file_path, writable) ==
    [win EXCEPT !.recent_files = add_to_recent_files(win.recent_files, file_path),
                !.recent_json = IF writable
                                THEN add_to_recent_files(win.recent_files, file_path)
                                ELSE @,
                !.handled = @ + 1]

\* analysis_finished(results)
analysis_finished(win, results, writable) ==
    LET stored == [win EXCEPT !.analysis_results = results,
                              !.status = "Analysis completed!",
                              !.last_event = "analysis_finished"]
    IN  IF win.current_file # None
        THEN RecentAdded(stored, win.current_file, writable)
        ELSE stored

\* The event loop hands the next signal to its slot: analysis_progress,
\* analysis_finished with display_results, or analysis_error.
HandleSignal ==
    /\ window.running
    /\ Len(window.queue) > 0
    /\ LET event  == Head(window.queue)
           popped == [window EXCEPT !.queue = Tail(@)]
       IN  IF event.signal.signal = "progress"
           THEN /\ window' = [popped EXCEPT !.status = event.signal.text,
                                            !.last_event = "analysis_progress"]
                /\ timeline' = timeline
           ELSE IF event.signal.signal = "error"
           THEN /\ window' = [popped EXCEPT !.status = "Error: " \o event.signal.text,
                                            !.last_event = "analysis_error"]
                /\ timeline' = timeline
           ELSE /\ \E writable \in BOOLEAN :
                     window' = analysis_finished(popped, event.signal.results, writable)
                /\ timeline' = [timeline EXCEPT !.sections = event.signal.results.sections]
    /\ UNCHANGED <<backendVars, serverVars, workers, player>>

NextWindow ==
    \/ LoadFile
    \/ ClearFile
    \/ AnalyzeAudioAgain
    \/ HandleSignal
    \/ \E w \in WorkerIds : WorkerCheckHealth(w) \/ WorkerUpload(w)

InitWindow ==
    /\ NoCall /\ NoServer
    /\ window = WindowInit(<<>>)
    /\ workers = [w \in WorkerIds |-> NoWorker]
    /\ player = AudioPlayerInit
    /\ timeline = TimelineInit

SpecWindow == InitWindow /\ [][NextWindow]_vars

(***************************************************************************)
(* The runs of the workers on their own: every worker of the window has    *)
(* been started, each for one of the files.                                *)
(***************************************************************************)
NextWorker == \E w \in WorkerIds : WorkerCheckHealth(w) \/ WorkerUpload(w)

InitWorker ==
    /\ NoCall /\ NoServer
    /\ player = AudioPlayerInit
    /\ timeline = TimelineInit
    /\ \E files \in [WorkerIds -> AudioFiles] :
         /\ workers = [w \in WorkerIds |-> NewWorker(files[w])]
         /\ window = [WindowInit(<<>>) EXCEPT !.current_file = files[MaxWorkers],
                                              !.analysis_worker = MaxWorkers,
                                              !.status = "Starting analysis...",
                                              !.last_event = "analyze_audio"]

SpecWorker == InitWorker /\ [][NextWorker]_vars

Terminals(w) ==
    { i \in 1..Len(workers[w].emitted) :
        workers[w].emitted[i].signal \in {"finished", "error"} }

\* C25: a run of AnalysisWorker emits one terminal signal, after all its
\* progress signals: finished when the health check returned 200 and the
\* analyze response was 200 with success true, and error in every other
\* case; a run that has not returned has emitted none.
C25_OneTerminalSignal ==
    \A w \in WorkerIds :
        /\ workers[w].pc \in {"none", "started", "uploading"} => Terminals(w) = {}
        /\ workers[w].pc = "returned" =>
              /\ Terminals(w) = {Len(workers[w].emitted)}
              /\ workers[w].emitted[Len(workers[w].emitted)].signal = "finished"
                    <=> /\ workers[w].health.kind = "response"
                        /\ workers[w].health.status = 200
                        /\ workers[w].analyze.kind = "response"
                        /\ workers[w].analyze.status = 200
                        /\ workers[w].analyze.body = "success"

\* One run has ended with finished after three progress signals, another
\* with the error of a response that is not 200.
C25_FinishedAndServerError ==
    \E v, w \in WorkerIds :
        /\ workers[v].pc = "returned"
        /\ Len(workers[v].emitted) = 4
        /\ workers[v].emitted[4].signal = "finished"
        /\ workers[w].pc = "returned"
        /\ workers[w].emitted[Len(workers[w].emitted)] = ErrorSignal("Server error: 500")

====
